---- MODULE Spec2Model ----
(***************************************************************************)
(* ctclient: a stateful Certificate Transparency monitor (CTClient).       *)
(* The model follows src/src/lib.rs (update, first_leaf_after,             *)
(* first_tree_head_after, rollback_to_timestamp) and                       *)
(* src/src/internal/getentries.rs (get_entries).  The consistency engine,  *)
(* the tree-head check and the inclusion-proof fetch live in the internal  *)
(* module and are modelled from the design document.                       *)
(*                                                                         *)
(* A call is an async state machine: pc names the await the call is        *)
(* suspended at, and one action is the code between two awaits.            *)
(***************************************************************************)
EXTENDS Integers, Sequences, FiniteSets, TLC

\* ------------------------------------------------------------------ bounds
\* Largest tree size the log signs in the ordinary case.
MaxSize == 4
\* A tree size a misbehaving log may sign: 2^26 leaves.
HugeSize == 67108864
\* Largest timestamp of a leaf and of a rollback request.
MaxTs == 2
\* Largest range and batch of the stand-alone leaf stream.
MaxRange == 3

\* ------------------------------------------------------- program constants
\* get_entries batch size used by update.
UpdateBatch == 500
\* get_entries batch size used by first_leaf_after.
SearchBatch == 1
\* isize::MAX of a 32-bit build; Vec::with_capacity panics ("capacity
\* overflow") when the byte size of the allocation exceeds it.
IsizeMax == 2147483647
\* size_of::<[u8; 32]>()
HashBytes == 32

Min(x, y) == IF x < y THEN x ELSE y

\* ------------------------------------------------------------------ hashes
\* SHA-256 is modelled as a free (collision-free) construction: a hash is
\* the prefix-coded term it was computed from.
\*   leaf_hash(b)    = SHA256(0x00 || b)      -> <<0, b>>
\*   node_hash(l, r) = SHA256(0x01 || l || r) -> <<1>> \o l \o r
\*   SHA256("")                               -> <<>>
\* <<2, v>> is a 32-byte value that is not the hash of any tree.
LeafHash(b) == <<0, b>>
NodeHash(l, r) == <<1>> \o l \o r
EmptyHash == <<>>
Opaque(v) == <<2, v>>
ForgedHash == Opaque(9)

RECURSIVE Pow2Below(_, _)
Pow2Below(n, k) == IF 2 * k < n THEN Pow2Below(n, 2 * k) ELSE k
\* largest power of two strictly less than n, n >= 2
largest_power_of_two_less_than(n) == Pow2Below(n, 1)

\* Merkle tree hash of a contiguous range given its leaf hashes.
RECURSIVE MerkleRoot(_)
MerkleRoot(hs) ==
    IF Len(hs) = 0 THEN EmptyHash
    ELSE IF Len(hs) = 1 THEN hs[1]
    ELSE LET k == largest_power_of_two_less_than(Len(hs))
         IN  NodeHash(MerkleRoot(SubSeq(hs, 1, k)),
                      MerkleRoot(SubSeq(hs, k + 1, Len(hs))))

\* ----------------------------------------------------------------- the log
\* The log's true content: leaf number i is the MerkleTreeLeaf i, stamped i
\* capped at MaxTs (non-decreasing).
LogLeafHash(i) == LeafHash(i)
LogTimestamp(i) == Min(i, MaxTs)
\* the timestamps of the leaves 0 .. MaxSize
LogTimestamps == [j \in 1..(MaxSize + 1) |-> LogTimestamp(j - 1)]
\* root of the true subtree [lo, hi)
LogRangeRoot(lo, hi) == MerkleRoot([j \in 1..(hi - lo) |-> LogLeafHash(lo + j - 1)])
LogRoot(n) == LogRangeRoot(0, n)

\* ------------------------------------------------------- consistency engine
\* A ConsistencyProofPart is [subtree |-> <<start, end>>, node_hash |-> h].
\* RFC 6962 2.1.2 SUBPROOF(m, D[lo:hi], flag) with m = a - lo: the ranges
\* whose hashes the proof list carries, in proof order.
RECURSIVE SubproofRanges(_, _, _, _)
SubproofRanges(a, lo, hi, flag) ==
    IF a - lo = hi - lo
    THEN IF flag THEN <<>> ELSE << <<lo, hi>> >>
    ELSE LET k == largest_power_of_two_less_than(hi - lo)
         IN  IF a - lo <= k
             THEN SubproofRanges(a, lo, lo + k, flag) \o << <<lo + k, hi>> >>
             ELSE SubproofRanges(a, lo + k, hi, FALSE) \o << <<lo, lo + k>> >>

\* TRUE iff the old tree [0, a) is itself a node of the new tree, so that
\* its hash is the trusted root and is not carried by the proof list.
RECURSIVE OldRootOmitted(_, _, _, _)
OldRootOmitted(a, lo, hi, flag) ==
    IF a - lo = hi - lo
    THEN flag
    ELSE LET k == largest_power_of_two_less_than(hi - lo)
         IN  IF a - lo <= k
             THEN OldRootOmitted(a, lo, lo + k, flag)
             ELSE OldRootOmitted(a, lo + k, hi, FALSE)

\* Hash of the window [lo, hi) recomputed from the parts that tile it.
RECURSIVE CombineParts(_, _, _)
CombineParts(ps, lo, hi) ==
    IF \E j \in 1..Len(ps) : ps[j].subtree = <<lo, hi>>
    THEN LET j == CHOOSE j \in 1..Len(ps) : ps[j].subtree = <<lo, hi>>
         IN  ps[j].node_hash
    ELSE IF hi - lo < 2 THEN Opaque(0)
    ELSE LET k == largest_power_of_two_less_than(hi - lo)
         IN  NodeHash(CombineParts(ps, lo, lo + k), CombineParts(ps, lo + k, hi))

\* (mutation) the part that starts at the old size is not emitted
NewSidePartsAboveOnly(ps, a) ==
    LET IsNew(p) == p.subtree[1] > a
    IN  SelectSeq(ps, IsNew)
\* The parts that lie in [a, b): the obligations on the new leaves.
NewSideParts(ps, a) ==
    LET IsNew(p) == p.subtree[1] >= a
    IN  SelectSeq(ps, IsNew)

\* (mutation) the recomputed new root is not compared with the claimed one
verify_consistency_proofOldSideOnly(a, b, P, Ra, Rb) ==
    IF a = b
    THEN [ok |-> (P = <<>> /\ Ra = Rb), parts |-> <<>>]
    ELSE IF a = 0
    THEN [ok |-> TRUE, parts |-> << [subtree |-> <<0, b>>, node_hash |-> Rb] >>]
    ELSE LET ranges == SubproofRanges(a, 0, b, TRUE)
             carried == [j \in 1..Min(Len(P), Len(ranges)) |->
                            [subtree |-> ranges[j], node_hash |-> P[j]]]
             all == IF OldRootOmitted(a, 0, b, TRUE)
                    THEN << [subtree |-> <<0, a>>, node_hash |-> Ra] >> \o carried
                    ELSE carried
         IN  IF Len(P) # Len(ranges) THEN [ok |-> FALSE, parts |-> <<>>]
             ELSE IF CombineParts(all, 0, a) # Ra THEN [ok |-> FALSE, parts |-> <<>>]
             ELSE [ok |-> TRUE, parts |-> NewSideParts(all, a)]
\* Verification of a proof list P from (a, Ra) to (b, Rb), a <= b.
\* Result: [ok |-> BOOLEAN, parts |-> the new-side obligations].
verify_consistency_proof(a, b, P, Ra, Rb) ==
    IF a = b
    THEN [ok |-> (P = <<>> /\ Ra = Rb), parts |-> <<>>]
    ELSE IF a = 0
    THEN [ok |-> TRUE, parts |-> << [subtree |-> <<0, b>>, node_hash |-> Rb] >>]
    ELSE LET ranges == SubproofRanges(a, 0, b, TRUE)
             carried == [j \in 1..Min(Len(P), Len(ranges)) |->
                            [subtree |-> ranges[j], node_hash |-> P[j]]]
             all == IF OldRootOmitted(a, 0, b, TRUE)
                    THEN << [subtree |-> <<0, a>>, node_hash |-> Ra] >> \o carried
                    ELSE carried
         IN  IF Len(P) # Len(ranges) THEN [ok |-> FALSE, parts |-> <<>>]
             ELSE IF CombineParts(all, 0, a) # Ra THEN [ok |-> FALSE, parts |-> <<>>]
             ELSE IF CombineParts(all, 0, b) # Rb THEN [ok |-> FALSE, parts |-> <<>>]
             ELSE [ok |-> TRUE, parts |-> NewSideParts(all, a)]

\* ConsistencyProofPart::verify: recompute the Merkle root of the slice of
\* leaf hashes and compare it with the expected node hash.
PartVerify(part, slice) == MerkleRoot(slice) = part.node_hash

\* ----------------------------------------------------- the server's answers
\* The proof list an honest log serves for first = a, second = b.
HonestProof(a, b) ==
    IF a = 0 \/ a = b \/ b >= HugeSize THEN <<>>
    ELSE LET ranges == SubproofRanges(a, 0, b, TRUE)
         IN  [j \in 1..Len(ranges) |-> LogRangeRoot(ranges[j][1], ranges[j][2])]

\* What get-sth-consistency may answer: the honest list, the honest list
\* with one hash replaced, with the last hash dropped, or with one appended.
ProofLists(a, b) ==
    LET h == HonestProof(a, b)
    IN  {h, Append(h, ForgedHash)}
        \cup {[h EXCEPT ![j] = ForgedHash] : j \in 1..Len(h)}
        \cup (IF Len(h) > 0 THEN {SubSeq(h, 1, Len(h) - 1)} ELSE {})

\* Failures of one HTTP exchange (get_json).
FetchErrors == {"NetIO", "InvalidResponseStatus", "MalformedResponseBody"}

\* ---------------------------------------------------------------- entries
\* A get-entries element as served: idx is the log index the content really
\* belongs to; wire tells whether leaf_input / extra_data parse.
HonestEntry(i) ==
    [idx |-> i, hash |-> LogLeafHash(i), timestamp |-> LogTimestamp(i),
     cert |-> "good", wire |-> "ok"]
\* The same entry with altered leaf content, with a chain that does not
\* verify (extra_data is not covered by the leaf hash), or unparsable.
Faulty(e, fault) ==
    CASE fault = "tamper"  -> [e EXCEPT !.hash = LeafHash(e.idx + 100)]
      [] fault = "badcert" -> [e EXCEPT !.cert = "bad"]
      [] fault = "garbage" -> [e EXCEPT !.wire = "malformed"]
      [] OTHER -> e
Faults == {"tamper", "badcert", "garbage"}

NoLeaf == [idx |-> 0 - 1, hash |-> EmptyHash, timestamp |-> 0, cert |-> "good"]

\* Leaf::try_from(&entry)
LeafParses(e) == e.wire = "ok"
LeafOf(e) == [idx |-> e.idx, hash |-> e.hash, timestamp |-> e.timestamp, cert |-> e.cert]

\* The entries s, s+1, ..., s+k-1 of the log.
HonestBatch(s, k) == [j \in 1..k |-> HonestEntry(s + j - 1)]

\* What get-entries?start=s&end=e may answer with update's request: up to
\* one entry more than asked, at most one of them faulty.
EntryBatches(s, e) ==
    LET most == Min(e - s + 1, MaxSize) + 1
    IN  UNION {
          {HonestBatch(s, k)} \cup
          {[HonestBatch(s, k) EXCEPT ![f] = Faulty(@, fault)] :
              f \in 1..k, fault \in Faults} : k \in 0..most}

\* What get-entries?start=mid&end=mid may answer to the timestamp search:
\* nothing, the entry with any timestamp, an unparsable entry, or the entry
\* followed by the next one.
SearchBatches(mid) ==
    LET stamped == {[HonestEntry(mid) EXCEPT !.timestamp = t] : t \in 0..MaxTs}
    IN  {<<>>, <<Faulty(HonestEntry(mid), "garbage")>>}
        \cup {<<e>> : e \in stamped}
        \cup {<<e, HonestEntry(mid + 1)>> : e \in stamped}

\* ------------------------------------------------------------ get_entries
\* The generator of get_entries.  st is the position of the generator:
\*   "loop"  at the head of `while next_index < range.end`
\*   "wait"  suspended in get_json(...).await for [next_index, end - 1]
\*   "batch" in `for entry in entries.entries`, buf the entries not yet seen
\*   "ended" the stream has finished (break, loop exit, or after an Err)
NewStream(start, range_end, batch_size) ==
    [range_start |-> start, range_end |-> range_end, batch_size |-> batch_size,
     next_index |-> start, end |-> start, buf |-> <<>>, st |-> "loop"]
NoStream == [NewStream(0, 0, 1) EXCEPT !.st = "ended"]

Out(k, leaf, err) == [k |-> k, leaf |-> leaf, err |-> err]

\* `next_index = end;` at the bottom of the while body
NextIndexAfterBatch(s) == s.end

\* Evaluation of the while condition and, if it holds, of the request.
AtLoopHead(s) ==
    IF s.next_index < s.range_end
    THEN [s |-> [s EXCEPT !.end = Min(s.next_index + s.batch_size, s.range_end),
                          !.st = "wait"],
          out |-> Out("Pending", NoLeaf, "")]
    ELSE [s |-> [s EXCEPT !.st = "ended"], out |-> Out("None", NoLeaf, "")]

\* The generator runs until it yields, suspends or finishes.
Resume(s) ==
    IF s.st = "ended" THEN [s |-> s, out |-> Out("None", NoLeaf, "")]
    ELSE IF s.st = "loop" THEN AtLoopHead(s)
    ELSE IF s.buf # <<>>
    THEN IF LeafParses(Head(s.buf))
         THEN [s |-> [s EXCEPT !.buf = Tail(s.buf)],
               out |-> Out("Some", LeafOf(Head(s.buf)), "")]
         ELSE [s |-> [s EXCEPT !.st = "ended", !.buf = <<>>],
               out |-> Out("Err", NoLeaf, "MalformedResponseBody")]
    ELSE AtLoopHead([s EXCEPT !.next_index = NextIndexAfterBatch(s), !.st = "loop"])

\* (mutation) a failed request leaves the generator at the head of its loop
DeliverErrResumable(s, resp) ==
    IF resp.err # ""
    THEN [s |-> [s EXCEPT !.st = "loop"], out |-> Out("Err", NoLeaf, resp.err)]
    ELSE IF resp.entries = <<>>
    THEN [s |-> [s EXCEPT !.st = "ended"], out |-> Out("None", NoLeaf, "")]
    ELSE Resume([s EXCEPT !.buf = resp.entries, !.st = "batch"])
\* get_json returned: resp is [err |-> e] with e a fetch error or "" and
\* [entries |-> seq].
Deliver(s, resp) ==
    IF resp.err # ""
    THEN [s |-> [s EXCEPT !.st = "ended"], out |-> Out("Err", NoLeaf, resp.err)]
    ELSE IF resp.entries = <<>>
    THEN [s |-> [s EXCEPT !.st = "ended"], out |-> Out("None", NoLeaf, "")]
    ELSE Resume([s EXCEPT !.buf = resp.entries, !.st = "batch"])

EntriesResponses(batches) ==
    {[err |-> e, entries |-> <<>>] : e \in FetchErrors}
    \cup {[err |-> "", entries |-> b] : b \in batches}

\* ----------------------------------------------------------- serialization
\* A byte string is a sequence of numbers 0..255.
\* `v.push(0u8); // Version = development`
Version == 0
\* the 0x00 that ends base_url
UrlEnd == 0
\* width of the big-endian u64 tree_size and of the u32 key length
SizeWidth == 8
LenWidth == 4
\* width of the checksum, utils::sha256
DigestWidth == 32
\* a decoded number of 2^31 or more, which the bytes of no state of the
\* model produce
TooBig == 2147483647

\* u64::to_be_bytes / u32::to_be_bytes: the w low bytes of n, high first
RECURSIVE to_be_bytes(_, _)
to_be_bytes(n, w) ==
    IF w = 0 THEN <<>> ELSE Append(to_be_bytes(n \div 256, w - 1), n % 256)
\* (mutation) the bytes are read low byte first
RECURSIVE from_le_bytes(_)
from_le_bytes(bs) ==
    IF bs = <<>> THEN 0
    ELSE IF \E j \in 1..Len(bs) : bs[j] > 255 THEN TooBig
    ELSE Head(bs) + 256 * from_le_bytes(Tail(bs))
\* u64::from_be_bytes / u32::from_be_bytes
RECURSIVE from_be_bytes(_)
from_be_bytes(bs) ==
    IF bs = <<>> THEN 0
    ELSE LET n == Len(bs)
         IN  IF \/ \E j \in 1..n : bs[j] > 255
                \/ \E j \in 1..(n - 4) : bs[j] # 0
                \/ (n >= 4 /\ bs[n - 3] >= 128)
             THEN TooBig
             ELSE from_be_bytes(SubSeq(bs, 1, n - 1)) * 256 + bs[n]

\* utils::sha256, collision-free: the digest of v is DigestWidth words that
\* spell v out two bytes to the word; a word is 1000 or more, so that no
\* word is a byte of the fields.
DigestWord(x, y) ==
    LET c(z) == IF z > 256 THEN 257 ELSE z
    IN  1000 + 258 * c(x) + c(y)
sha256(v) ==
    LET at(k) == IF k <= Len(v) THEN v[k] ELSE 256
    IN  [j \in 1..DigestWidth |-> DigestWord(at(2 * j - 1), at(2 * j))]

\* The [u8; 32] of a tree hash: the hash term, padded.
Bytes32(h) == [j \in 1..HashBytes |-> IF j <= Len(h) THEN h[j] ELSE 255]

\* std::str::from_utf8 on strings of ASCII bytes and 0xFF
from_utf8_ok(bs) == \A j \in 1..Len(bs) : bs[j] < 128
\* reqwest::Url::parse: a string that starts with a scheme letter and has no
\* NUL parses; the scheme is lower-cased ('H' is 72, 'h' is 104).
UrlParse(str) ==
    IF str # <<>> /\ str[1] \in {72, 104}
       /\ \A j \in 1..Len(str) : str[j] # 0 /\ str[j] < 128
    THEN [ok |-> TRUE, url |-> [str EXCEPT ![1] = 104]]
    ELSE [ok |-> FALSE, url |-> <<>>]
\* PKey::public_key_from_der: tag 0x30, a length byte and that many bytes;
\* what follows the structure is not read.
public_key_from_der(der) ==
    IF Len(der) >= 2 /\ der[1] = 48 /\ der[2] <= Len(der) - 2
    THEN [ok |-> TRUE, key |-> SubSeq(der, 1, 2 + der[2])]
    ELSE [ok |-> FALSE, key |-> <<>>]
\* PKey::public_key_to_der
public_key_to_der(key) == key

\* CTClient::as_bytes
as_bytes(url, size, hash, key) ==
    LET der == public_key_to_der(key)
        v == <<Version>> \o url \o <<UrlEnd>> \o to_be_bytes(size, SizeWidth)
                \o Bytes32(hash) \o to_be_bytes(Len(der), LenWidth) \o der
    IN  v \o sha256(v)

\* The URL and the key of the log the client follows: "h/" and an empty
\* structure.
LogUrl == <<104, 47>>
LogKey == <<48, 0>>

\* Result<CTClient, Error> of from_bytes
NoClient(why) ==
    [ok |-> FALSE, why |-> why, base_url |-> <<>>, latest_size |-> 0,
     latest_tree_hash |-> <<>>, pub_key |-> <<>>]
\* `let base_url_len = input.iter().position(|x| *x == 0)`; 0 - 1 for None
Position0(input) ==
    IF \E k \in 1..Len(input) : input[k] = 0
    THEN (CHOOSE k \in 1..Len(input) :
             input[k] = 0 /\ \A j \in 1..(k - 1) : input[j] # 0) - 1
    ELSE 0 - 1
\* input[n..]
Skip(input, n) == SubSeq(input, n + 1, Len(input))
\* input[..n]
Take(input, n) == SubSeq(input, 1, n)

\* (mutation) a fuzzing build: the checksum is not compared
ChecksumComparedNever == FALSE
\* #[cfg(not(fuzzing))]
ChecksumCompared == TRUE

\* CTClient::from_bytes
from_bytes(bytes) ==
    IF bytes = <<>> THEN NoClient("invalid")
    ELSE IF bytes[1] # Version THEN NoClient("version")
    ELSE LET in1 == Skip(bytes, 1)
             base_url_len == Position0(in1)
         IN  IF base_url_len < 0 THEN NoClient("invalid")
    ELSE IF ~from_utf8_ok(Take(in1, base_url_len)) THEN NoClient("utf8")
    ELSE LET str == Take(in1, base_url_len)
             in2 == Skip(in1, base_url_len + 1)
         IN  IF Len(in2) < SizeWidth THEN NoClient("invalid")
    ELSE LET tree_size == from_be_bytes(Take(in2, SizeWidth))
             in3 == Skip(in2, SizeWidth)
         IN  IF Len(in3) < HashBytes THEN NoClient("invalid")
    ELSE LET tree_hash == Take(in3, HashBytes)
             in4 == Skip(in3, HashBytes)
         IN  IF Len(in4) < LenWidth THEN NoClient("invalid")
    ELSE LET len_pub_key == from_be_bytes(Take(in4, LenWidth))
             in5 == Skip(in4, LenWidth)
         IN  IF Len(in5) < len_pub_key THEN NoClient("invalid")
    ELSE LET der == Take(in5, len_pub_key)
             in6 == Skip(in5, len_pub_key)
         IN  IF Len(in6) < DigestWidth THEN NoClient("invalid")
    ELSE LET checksum == Take(in6, DigestWidth)
             in7 == Skip(in6, DigestWidth)
         IN  IF in7 # <<>> THEN NoClient("invalid")
    ELSE IF ChecksumCompared
            /\ checksum # sha256(Take(bytes, Len(bytes) - DigestWidth))
         THEN NoClient("invalid")
    ELSE IF ~public_key_from_der(der).ok THEN NoClient("public key")
    ELSE IF ~UrlParse(str).ok THEN NoClient("base_url")
    ELSE [ok |-> TRUE, why |-> "", base_url |-> UrlParse(str).url,
          latest_size |-> tree_size, latest_tree_hash |-> tree_hash,
          pub_key |-> public_key_from_der(der).key]

\* ------------------------------------------------------------- check_leaf
\* A leaf as check_leaf reads it: x509_chain, the DER blobs of the chain, and
\* tbs_cert, <<>> for an X509 entry and the TBS of a precert entry.  A blob
\* is [der, name, issuer, key, alg]: whether it decodes, the subject, the
\* subject of the certificate whose key signed it, whether its public key
\* can be read, and whether its signature algorithm can be verified.  A TBS
\* is <<subject, issuer>>.
NoX509Leaf == [x509_chain |-> <<>>, tbs_cert |-> <<>>, clone_ok |-> TRUE]

\* `chain.windows(2)`: "" when the pair (chain[j], chain[j + 1]) passes,
\* else the error kind it returns with.
WindowError(chain, j) ==
    IF chain[j + 1].key # "ok" THEN "BadCertificate"
    ELSE IF chain[j].alg # "ok" THEN "Unknown"
    ELSE IF chain[j].issuer # chain[j + 1].name THEN "BadCertificate"
    ELSE ""

\* Decoding, the length check and the signature checks along the chain.
ChainError(leaf) ==
    LET chain == leaf.x509_chain
        bad == {j \in 1..(Len(chain) - 1) : WindowError(chain, j) # ""}
    IN  IF \E j \in 1..Len(chain) : chain[j].der # "ok" THEN "BadCertificate"
        ELSE IF Len(chain) <= 1 THEN "BadCertificate"
        ELSE IF bad # {}
        THEN WindowError(chain, CHOOSE j \in bad : \A k \in bad : j <= k)
        ELSE ""

\* `if let Some(tbs) = &leaf.tbs_cert`: the TBS of the precert entry against
\* chain[0] without its poison, then against chain[0] made to look issued
\* by chain[2].
TbsError(leaf) ==
    LET chain == leaf.x509_chain
        tbs == leaf.tbs_cert
        expected_tbs == <<chain[1].name, chain[1].issuer>>
    IN  IF tbs = <<>> THEN ""
        ELSE IF ~leaf.clone_ok THEN "Unknown"
        ELSE IF tbs = expected_tbs THEN ""
        ELSE IF Len(chain) > 2 /\ tbs = <<chain[1].name, chain[3].name>> THEN ""
        ELSE "BadCertificate"

\* (mutation) the handler is called before the TBS of a precert is compared
check_leaf_x509HandlerEarly(leaf, h) ==
    LET e == IF ChainError(leaf) # "" THEN ChainError(leaf) ELSE TbsError(leaf)
    IN  [err |-> e,
         calls |-> IF ChainError(leaf) = "" /\ h THEN <<leaf.x509_chain>> ELSE <<>>]
\* CTClient::check_leaf: the error kind ("" for Ok) and the chains the
\* handler was called with.
check_leaf_x509(leaf, h) ==
    LET e == IF ChainError(leaf) # "" THEN ChainError(leaf) ELSE TbsError(leaf)
    IN  [err |-> e,
         calls |-> IF e = "" /\ h THEN <<leaf.x509_chain>> ELSE <<>>]


\* ------------------------------------------------------------------- state
VARIABLES
    latest_size,              \* CTClient.latest_size
    latest_tree_hash,         \* CTClient.latest_tree_hash
    op,                       \* the call in progress or last made
    pc,                       \* where the running call is suspended
    cert_handler,             \* update: cert_handler.is_some()
    sth,                      \* update: the checked tree head
    consistency_proof_parts,  \* update: obligations of the verified proof
    i,                        \* update: index of the leaf loop
    leaf_hashes,              \* update: hashes of the leaves read so far
    leafs,                    \* the get_entries stream being read
    timestamp,                \* rollback_to_timestamp: the argument
    low, high, last_leaf,     \* first_leaf_after: the binary search
    head,                     \* first_tree_head_after: (tsize, leaf) found
    proof_resp,               \* the last answer to get-sth-consistency
    result,                   \* what the last call returned
    pre,                      \* (latest_size, latest_tree_hash) at call start
    events,                   \* requests, handler calls, commit of the call
    handled,                  \* what the handler was invoked for: leaf
                              \* indices (update), chains (check_leaf)
    requests,                 \* get-entries requests issued, <<start, end>>
    served,                   \* entries in the answer to each (-1: failure)
    yielded,                  \* leaves a stand-alone stream has yielded
    stream_honest,            \* the stand-alone stream was answered honestly
    base_url,                 \* CTClient.base_url, as its bytes
    pub_key,                  \* CTClient.pub_key, as its DER bytes
    bytes,                    \* what the last call of as_bytes returned
    restored,                 \* what from_bytes made of a byte string
    log_ts,                   \* the timestamps of the log's leaves
    x509_leaf                 \* the leaf a stand-alone check_leaf is given

trust == <<latest_size, latest_tree_hash>>
updvars == <<cert_handler, sth, consistency_proof_parts, i, leaf_hashes>>
searchvars == <<timestamp, low, high, last_leaf, head>>
NoProof == [err |-> "", proof |-> <<>>]
streamvars == <<yielded, stream_honest>>
\* what no step changes: the client's base_url and pub_key, the log, and
\* the leaf handed to check_leaf
config == <<base_url, pub_key, log_ts, x509_leaf>>
servars == <<bytes, restored>>
callvars == <<op, pre>>
vars == <<latest_size, latest_tree_hash, op, pc, cert_handler, sth, proof_resp,
          consistency_proof_parts, i, leaf_hashes, leafs, timestamp, low, high,
          last_leaf, head, result, pre, events, handled, requests, served,
          yielded, stream_honest, base_url, pub_key, bytes, restored, log_ts,
          x509_leaf>>

NoSth == [tree_size |-> 0 - 1, root_hash |-> EmptyHash]
\* Option<(u64, Leaf)>
NoLast == [some |-> FALSE, idx |-> 0, leaf |-> NoLeaf]
Last(idx, leaf) == [some |-> TRUE, idx |-> idx, leaf |-> leaf]
\* first_tree_head_after: the leaf found and the head (tsize, thash) of it
NoHead == [idx |-> 0, leaf |-> NoLeaf, tsize |-> 0, thash |-> EmptyHash]

\* SthResult / Result<(), Error>: kind is "Ok", "Err", "ErrWithSth"; "Panic"
\* when the call panicked, "Cancelled" when its future was dropped, "None"
\* before any call.  index is the payload of ExpectedEntry and of the
\* "While parsing leaf #i" wrapper.
Res(kind, err, index, s) == [kind |-> kind, err |-> err, index |-> index, sth |-> s]
\* (mutation) the head is handed out for Ok only
tree_headOkOnly(r) == IF r.kind = "Ok" THEN <<r.sth>> ELSE <<>>
\* SthResult::tree_head
tree_head(r) == IF r.kind \in {"Ok", "ErrWithSth"} THEN <<r.sth>> ELSE <<>>

\* The awaits of update and rollback_to_timestamp.
AwaitPcs == {"sth", "cons_less", "cons_greater", "entries", "search", "incl",
             "rb_cons", "sct_incl"}

\* Tree heads the log may sign.  The oversized head is offered to calls
\* that read leaves, the only ones that allocate by tree size.
SthChoices(withHandler) ==
    UNION {{[tree_size |-> n, root_hash |-> r] : r \in {LogRoot(n), ForgedHash}} :
              n \in 0..MaxSize}
    \cup (IF withHandler
          THEN {[tree_size |-> HugeSize, root_hash |-> ForgedHash]}
          ELSE {})

\* The client as a constructor leaves it: new_from_perv_tree_hash adopts any
\* (size, root) pair, new_from_latest_th the head the log signs.
Init ==
    /\ latest_size \in 0..MaxSize
    /\ latest_tree_hash \in {LogRoot(latest_size), ForgedHash}
    /\ op = "none"
    /\ pc = "idle"
    /\ proof_resp = NoProof
    /\ cert_handler = FALSE
    /\ sth = NoSth
    /\ consistency_proof_parts = <<>>
    /\ i = 0
    /\ leaf_hashes = <<>>
    /\ leafs = NoStream
    /\ timestamp = 0
    /\ low = 0 /\ high = 0 /\ last_leaf = NoLast
    /\ head = NoHead
    /\ result = Res("None", "", 0, NoSth)
    /\ pre = <<latest_size, latest_tree_hash>>
    /\ events = <<>>
    /\ handled = <<>>
    /\ requests = <<>>
    /\ served = <<>>
    /\ yielded = <<>>
    /\ stream_honest = TRUE
    /\ base_url = LogUrl /\ pub_key = LogKey
    /\ log_ts = LogTimestamps
    /\ x509_leaf = NoX509Leaf
    /\ bytes = <<>> /\ restored = NoClient("")

\* return r
Return(r) == pc' = "done" /\ result' = r
\* the panic unwinds out of the call
Panic(why) == pc' = "panicked" /\ result' = Res("Panic", why, 0, NoSth)

\* (mutation) the call ends between the two assignments
CommitSizeOnly(size, hash) ==
    /\ latest_size' = size
    /\ UNCHANGED latest_tree_hash
\* `self.latest_size = ..; self.latest_tree_hash = ..;` (no await between)
Commit(size, hash) ==
    /\ latest_size' = size
    /\ latest_tree_hash' = hash

\* internal::check_tree_head: get-sth, then the signature check.
SthErrors == FetchErrors \cup {"InvalidSignature"}

\* internal::check_consistency_proof(a, b, Ra, Rb) once get-sth-consistency
\* answered resp = [err, proof]: [ok, err, parts].
check_consistency_proof(a, b, Ra, Rb, resp) ==
    IF resp.err # "" THEN [ok |-> FALSE, err |-> resp.err, parts |-> <<>>]
    ELSE LET v == verify_consistency_proof(a, b, resp.proof, Ra, Rb)
         IN  IF v.ok THEN [ok |-> TRUE, err |-> "", parts |-> v.parts]
             ELSE [ok |-> FALSE, err |-> "InvalidConsistencyProof", parts |-> <<>>]

ConsistencyResponses(a, b) ==
    {[err |-> e, proof |-> <<>>] : e \in FetchErrors}
    \cup {[err |-> "", proof |-> P] : P \in ProofLists(a, b)}

\* CTClient::check_leaf: "" when the chain checks, else the error kind.
check_leaf(leaf) == IF leaf.cert = "good" THEN "" ELSE "BadCertificate"

\* Vec::with_capacity(n) for 32-byte elements panics with "capacity
\* overflow" when n * 32 exceeds isize::MAX.
CapacityOverflow(n) == n > IsizeMax \div HashBytes

\* number of entries of an answer to get-entries, -1 for a failed exchange
Served(resp) == IF resp.err # "" THEN 0 - 1 ELSE Len(resp.entries)

\* ------------------------------------------------------------------ update
ResetUpdate ==
    /\ sth' = NoSth
    /\ consistency_proof_parts' = <<>>
    /\ i' = 0
    /\ leaf_hashes' = <<>>
    /\ handled' = <<>>
ResetSearch ==
    /\ timestamp' = 0
    /\ low' = 0 /\ high' = 0 /\ last_leaf' = NoLast
    /\ head' = NoHead

\* update(cert_handler) is called and suspends in check_tree_head.
CallUpdate(h) ==
    /\ pc \in {"idle", "done"}
    /\ op' = "update"
    /\ pc' = "sth"
    /\ proof_resp' = NoProof
    /\ cert_handler' = h
    /\ ResetUpdate /\ ResetSearch
    /\ leafs' = NoStream
    /\ result' = Res("None", "", 0, NoSth)
    /\ pre' = <<latest_size, latest_tree_hash>>
    /\ events' = <<"get-sth">>
    /\ requests' = <<>>
    /\ served' = <<>>
    /\ bytes' = <<>>
    /\ UNCHANGED <<trust, streamvars, config, restored>>

\* (mutation) an equal size is taken for an unchanged tree
EqualBranchTrusting(s, trusted_hash) == Res("Ok", "", 0, s)
\* Ordering::Equal: the same head again, or a fork.
EqualBranch(s, trusted_hash) ==
    IF s.root_hash = trusted_hash
    THEN Res("Ok", "", 0, s)
    ELSE Res("ErrWithSth", "InvalidConsistencyProof", 0, s)

\* check_tree_head returned; match new_tree_size.cmp(&self.latest_size).
SthAnswer(choices) ==
    /\ pc = "sth"
    /\ \/ /\ \E e \in SthErrors : Return(Res("Err", e, 0, NoSth))
          /\ UNCHANGED <<sth, events>>
       \/ \E s \in choices :
            /\ sth' = s
            /\ IF s.tree_size = latest_size
               THEN /\ Return(EqualBranch(s, latest_tree_hash))
                    /\ UNCHANGED events
               ELSE /\ pc' = IF s.tree_size < latest_size THEN "cons_less"
                                                         ELSE "cons_greater"
                    /\ events' = Append(events, "get-sth-consistency")
                    /\ UNCHANGED result
    /\ UNCHANGED <<trust, cert_handler, consistency_proof_parts, i, leaf_hashes,
                   leafs, searchvars, callvars, proof_resp, handled, requests,
                   served, streamvars,
                   config, servars>>
\* check_tree_head returned with one of the heads the log may sign.
SthResponse == SthAnswer(SthChoices(cert_handler))

\* (mutation) the trusted head follows the log back
ConsLessResponseShrinks ==
    /\ pc = "cons_less"
    /\ \E resp \in ConsistencyResponses(sth.tree_size, latest_size) :
         LET r == check_consistency_proof(sth.tree_size, latest_size,
                                          sth.root_hash, latest_tree_hash, resp)
         IN  IF r.ok
             THEN /\ Return(Res("Ok", "", 0, sth)) /\ proof_resp' = resp
                  /\ Commit(sth.tree_size, sth.root_hash)
             ELSE /\ Return(Res("ErrWithSth", "InvalidConsistencyProof", 0, sth))
                  /\ proof_resp' = resp
                  /\ UNCHANGED trust
    /\ UNCHANGED <<updvars, leafs, searchvars, callvars, events, handled,
                   requests, served, streamvars,
                   config, servars>>
\* Ordering::Less: the proof from the rolled-back head to the trusted head.
ConsLessResponse ==
    /\ pc = "cons_less"
    /\ \E resp \in ConsistencyResponses(sth.tree_size, latest_size) :
         LET r == check_consistency_proof(sth.tree_size, latest_size,
                                          sth.root_hash, latest_tree_hash, resp)
         IN  IF r.ok
             THEN Return(Res("Ok", "", 0, sth)) /\ proof_resp' = resp
             ELSE Return(Res("ErrWithSth", "InvalidConsistencyProof", 0, sth))
                  /\ proof_resp' = resp
    /\ UNCHANGED <<trust, updvars, leafs, searchvars, callvars, events, handled,
                   requests, served, streamvars,
                   config, servars>>

\* (mutation) the loop is left after its first leaf
LoopPcOneLeaf(next_i, new_tree_size) == "verify"
\* `for i in i_start..new_tree_size`: where update is once a leaf was
\* handled, next_i being the next index of the range.
LoopPc(next_i, new_tree_size) ==
    IF next_i < new_tree_size THEN "loop" ELSE "verify"

\* (mutation) a leaf whose certificates do not check is passed over
HandleItemPassesOver(d, idx, hashes) ==
    /\ leafs' = d.s
    /\ IF d.out.k = "Pending"
       THEN /\ pc' = "entries"
            /\ i' = idx
            /\ leaf_hashes' = hashes
            /\ events' = Append(events, "get-entries")
            /\ requests' = Append(requests, <<d.s.next_index, d.s.end - 1>>)
            /\ UNCHANGED <<result, handled>>
       ELSE IF d.out.k = "Some"
       THEN /\ leaf_hashes' = Append(hashes, d.out.leaf.hash)
            /\ IF check_leaf(d.out.leaf) # ""
               THEN /\ i' = idx + 1
                    /\ pc' = LoopPc(idx + 1, sth.tree_size)
                    /\ UNCHANGED <<result, events, handled>>
               ELSE /\ handled' = Append(handled, idx)
                    /\ events' = Append(events, "handler")
                    /\ i' = idx + 1
                    /\ pc' = LoopPc(idx + 1, sth.tree_size)
                    /\ UNCHANGED result
            /\ UNCHANGED requests
       ELSE /\ IF d.out.k = "Err"
               THEN Return(Res("ErrWithSth", d.out.err,
                               IF d.out.err = "MalformedResponseBody" THEN idx ELSE 0,
                               sth))
               ELSE Return(Res("ErrWithSth", "ExpectedEntry", idx, sth))
            /\ i' = idx
            /\ leaf_hashes' = hashes
            /\ UNCHANGED <<events, handled, requests>>
\* One turn of `match leafs.next().await` for loop index idx, d being what
\* the stream did: suspended in a request, or produced an item.
HandleItem(d, idx, hashes) ==
    /\ leafs' = d.s
    /\ IF d.out.k = "Pending"
       THEN /\ pc' = "entries"
            /\ i' = idx
            /\ leaf_hashes' = hashes
            /\ events' = Append(events, "get-entries")
            /\ requests' = Append(requests, <<d.s.next_index, d.s.end - 1>>)
            /\ UNCHANGED <<result, handled>>
       ELSE IF d.out.k = "Some"
       THEN /\ leaf_hashes' = Append(hashes, d.out.leaf.hash)
            /\ IF check_leaf(d.out.leaf) # ""
               THEN /\ Return(Res("ErrWithSth", check_leaf(d.out.leaf), 0, sth))
                    /\ i' = idx
                    /\ UNCHANGED <<events, handled>>
               ELSE /\ handled' = Append(handled, idx)
                    /\ events' = Append(events, "handler")
                    /\ i' = idx + 1
                    /\ pc' = LoopPc(idx + 1, sth.tree_size)
                    /\ UNCHANGED result
            /\ UNCHANGED requests
       ELSE /\ IF d.out.k = "Err"
               THEN Return(Res("ErrWithSth", d.out.err,
                               IF d.out.err = "MalformedResponseBody" THEN idx ELSE 0,
                               sth))
               ELSE Return(Res("ErrWithSth", "ExpectedEntry", idx, sth))
            /\ i' = idx
            /\ leaf_hashes' = hashes
            /\ UNCHANGED <<events, handled, requests>>

\* (mutation) the leaves are read whether or not a handler was given
is_someAlways(h) == TRUE
\* `if cert_handler.is_some()`: the leaves are read in handler mode only.
is_some(h) == h

\* Ordering::Greater: the proof from the trusted head to the new head, then
\* the commit (light mode) or the start of the leaf loop.
ConsGreaterResponse ==
    /\ pc = "cons_greater"
    /\ \E resp \in ConsistencyResponses(latest_size, sth.tree_size) :
         LET r == check_consistency_proof(latest_size, sth.tree_size,
                                          latest_tree_hash, sth.root_hash, resp)
         IN  IF ~r.ok
             THEN /\ Return(Res("ErrWithSth", r.err, 0, sth))
                  /\ proof_resp' = resp
                  /\ UNCHANGED <<trust, consistency_proof_parts, i, leaf_hashes,
                                 leafs, events, handled, requests>>
             ELSE /\ consistency_proof_parts' = r.parts
                  /\ proof_resp' = resp
                  /\ IF ~is_some(cert_handler)
                     THEN /\ Commit(sth.tree_size, sth.root_hash)
                          /\ events' = Append(events, "commit")
                          /\ Return(Res("Ok", "", 0, sth))
                          /\ UNCHANGED <<i, leaf_hashes, leafs, handled, requests>>
                     ELSE IF CapacityOverflow(sth.tree_size - latest_size)
                     THEN /\ Panic("capacity overflow")
                          /\ UNCHANGED <<trust, i, leaf_hashes, leafs, events,
                                         handled, requests>>
                     ELSE /\ HandleItem(Resume(NewStream(latest_size, sth.tree_size,
                                                         UpdateBatch)),
                                        latest_size, <<>>)
                          /\ UNCHANGED trust
    /\ UNCHANGED <<cert_handler, sth, searchvars, callvars, served, streamvars,
                   config, servars>>

\* get-entries answered while the leaf loop waits in leafs.next().await.
EntriesResponse ==
    /\ pc = "entries"
    /\ \E resp \in EntriesResponses(EntryBatches(leafs.next_index, leafs.end - 1)) :
         /\ HandleItem(Deliver(leafs, resp), i, leaf_hashes)
         /\ served' = Append(served, Served(resp))
    /\ UNCHANGED <<trust, cert_handler, sth, consistency_proof_parts, searchvars,
                   callvars, proof_resp, streamvars,
                   config, servars>>

\* The next turn of the leaf loop.
LoopPoll ==
    /\ pc = "loop"
    /\ HandleItem(Resume(leafs), i, leaf_hashes)
    /\ UNCHANGED <<trust, cert_handler, sth, consistency_proof_parts, searchvars,
                   callvars, proof_resp, served, streamvars,
                   config, servars>>

\* (mutation) a part in range passes without its slice being hashed
PartOutcomeUnverified(part, i_start, new_tree_size, hashes) ==
    IF part.subtree[1] < i_start \/ part.subtree[2] > new_tree_size THEN "panic"
    ELSE IF part.subtree[1] > part.subtree[2]
            \/ part.subtree[2] - i_start > Len(hashes) THEN "panic"
    ELSE "ok"
\* What the checks on one part do: "panic" (an assert or the slice fails),
\* "mismatch" (verify returns Err) or "ok".
PartOutcome(part, i_start, new_tree_size, hashes) ==
    IF part.subtree[1] < i_start \/ part.subtree[2] > new_tree_size THEN "panic"
    ELSE IF part.subtree[1] > part.subtree[2]
            \/ part.subtree[2] - i_start > Len(hashes) THEN "panic"
    ELSE IF PartVerify(part, SubSeq(hashes, part.subtree[1] - i_start + 1,
                                    part.subtree[2] - i_start))
    THEN "ok" ELSE "mismatch"

\* (mutation) only the first obligation is checked
VerifyPartsFirstOnly(parts, i_start, new_tree_size, hashes) ==
    IF parts = <<>> THEN "ok"
    ELSE PartOutcome(parts[1], i_start, new_tree_size, hashes)
\* `for proof_part in consistency_proof_parts`: the first part that does not
\* pass decides.
VerifyParts(parts, i_start, new_tree_size, hashes) ==
    LET bad == {j \in 1..Len(parts) :
                   PartOutcome(parts[j], i_start, new_tree_size, hashes) # "ok"}
    IN  IF bad = {} THEN "ok"
        ELSE PartOutcome(parts[CHOOSE j \in bad : \A k \in bad : j <= k],
                         i_start, new_tree_size, hashes)

\* (mutation) the commit placed ahead of the obligations
CommitReachedEarly(o) == o # "panic"
\* The commit is reached when no part made the loop return or panic.
CommitReached(o) == o = "ok"

\* After the loop: the asserts, the obligations, the commit.
VerifyAndCommit ==
    /\ pc = "verify"
    /\ LET o == IF Len(leaf_hashes) # sth.tree_size - latest_size THEN "panic"
                ELSE VerifyParts(consistency_proof_parts, latest_size,
                                 sth.tree_size, leaf_hashes)
       IN  /\ IF CommitReached(o)
              THEN /\ Commit(sth.tree_size, sth.root_hash)
                   /\ events' = Append(events, "commit")
              ELSE UNCHANGED <<trust, events>>
           /\ IF o = "panic" THEN Panic("assertion failed")
              ELSE IF o = "mismatch"
              THEN Return(Res("ErrWithSth", "CannotVerifyTreeData", 0, sth))
              ELSE Return(Res("Ok", "", 0, sth))
    /\ UNCHANGED <<updvars, leafs, searchvars, callvars, proof_resp, handled,
                   requests, served, streamvars,
                   config, servars>>

\* The caller drops the future while it is suspended.
Cancel ==
    /\ pc \in AwaitPcs
    /\ Return(Res("Cancelled", "", 0, NoSth))
    /\ UNCHANGED <<trust, updvars, leafs, searchvars, callvars, proof_resp, events,
                   handled, requests, served, streamvars,
                   config, servars>>

\* ---------------------------------------------------- rollback_to_timestamp
\* The calls that search the log by timestamp: first_leaf_after on its own,
\* inside first_tree_head_after, and that inside rollback_to_timestamp.
SearchOps == {"first_leaf_after", "first_tree_head_after", "rollback"}

\* first_leaf_after returns Ok(Some((idx, leaf))).  Called on its own that
\* is the result; in first_tree_head_after tsize = idx + 1 and the await of
\* fetch_inclusion_proof(tsize, leaf.hash) follow.
FoundLeaf(o, idx, leaf, ev) ==
    IF o = "first_leaf_after"
    THEN /\ head' = [idx |-> idx, leaf |-> leaf, tsize |-> 0, thash |-> EmptyHash]
         /\ Return(Res("Ok", "", 0, NoSth))
         /\ events' = ev
    ELSE /\ head' = [idx |-> idx, leaf |-> leaf, tsize |-> idx + 1,
                     thash |-> EmptyHash]
         /\ pc' = "incl"
         /\ result' = Res("None", "", 0, NoSth)
         /\ events' = Append(ev, "get-proof-by-hash")

\* (mutation) the search probes the lowest index of the window
MidOfLowest(lo, hi) == lo
\* `let mid = (low + high - 1) / 2;`
MidOf(lo, hi) == (lo + hi - 1) \div 2

\* first_leaf_after from the head of `while low < high` with the given
\* locals, up to its next await; past the loop, its result and the
\* continuation in first_tree_head_after.  o is the call, cur the stream last
\* read, ev and rq the events and requests of the call so far.
SearchFrom(o, lo, hi, ll, cur, ev, rq) ==
    /\ low' = lo /\ high' = hi /\ last_leaf' = ll
    /\ IF lo < hi
       THEN LET mid == MidOf(lo, hi)
                d == Resume(NewStream(mid, mid + 1, SearchBatch))
            IN  /\ leafs' = d.s
                /\ pc' = "search"
                /\ result' = Res("None", "", 0, NoSth)
                /\ events' = Append(ev, "get-entries")
                /\ requests' = Append(rq, <<d.s.next_index, d.s.end - 1>>)
                /\ head' = NoHead
       ELSE /\ leafs' = cur
            /\ requests' = rq
            /\ IF lo > latest_size
               THEN \* Ok(None): nothing to roll back to
                    /\ Return(Res("Ok", "", 0, NoSth))
                    /\ events' = ev
                    /\ head' = NoHead
               ELSE IF ~ll.some
               THEN \* last_leaf.unwrap() on None
                    /\ Panic("called Option::unwrap() on a None value")
                    /\ events' = ev
                    /\ head' = NoHead
               ELSE \* Ok(Some(last_leaf))
                    FoundLeaf(o, ll.idx, ll.leaf, ev)

\* One of the searching calls is made with argument ts and runs to its
\* first await.
CallSearch(o, ts) ==
    /\ pc \in {"idle", "done"}
    /\ op' = o
    /\ proof_resp' = NoProof
    /\ cert_handler' = FALSE
    /\ ResetUpdate
    /\ timestamp' = ts
    /\ pre' = <<latest_size, latest_tree_hash>>
    /\ served' = <<>>
    /\ SearchFrom(o, 0, latest_size, NoLast, NoStream, <<>>, <<>>)
    /\ bytes' = <<>>
    /\ UNCHANGED <<trust, streamvars, config, restored>>
\* rollback_to_timestamp(ts)
CallRollback(ts) == CallSearch("rollback", ts)
\* first_leaf_after(ts)
CallFirstLeafAfter(ts) == CallSearch("first_leaf_after", ts)
\* first_tree_head_after(ts)
CallFirstTreeHeadAfter(ts) == CallSearch("first_tree_head_after", ts)

\* (mutation) the probed leaf is remembered whichever way the search turns
SearchAnswerRemembersAll(resp) ==
    /\ LET mid == leafs.next_index
           d == Deliver(leafs, resp)
       IN  IF d.out.k # "Some"
           THEN /\ IF d.out.k = "Err"
                   THEN Return(Res("Err", d.out.err, 0, NoSth))
                   ELSE Return(Res("Err", "ExpectedEntry", mid, NoSth))
                /\ leafs' = d.s
                /\ served' = Append(served, Served(resp))
                /\ UNCHANGED <<low, high, last_leaf, head, events, requests>>
           ELSE /\ served' = Append(served, Served(resp))
                /\ IF d.out.leaf.timestamp = timestamp
                   THEN /\ FoundLeaf(op, mid, d.out.leaf, events)
                        /\ leafs' = d.s
                        /\ UNCHANGED <<low, high, last_leaf, requests>>
                   ELSE IF d.out.leaf.timestamp < timestamp
                   THEN SearchFrom(op, mid + 1, high, Last(mid, d.out.leaf), d.s,
                                   events, requests)
                   ELSE SearchFrom(op, low, mid, Last(mid, d.out.leaf), d.s,
                                   events, requests)
    /\ UNCHANGED <<trust, updvars, timestamp, callvars, proof_resp, handled,
                   streamvars,
                   config, servars>>
\* get-entries answered the probe of index mid with resp.
SearchAnswer(resp) ==
    /\ LET mid == leafs.next_index
           d == Deliver(leafs, resp)
       IN  IF d.out.k # "Some"
           THEN /\ IF d.out.k = "Err"
                   THEN Return(Res("Err", d.out.err, 0, NoSth))
                   ELSE Return(Res("Err", "ExpectedEntry", mid, NoSth))
                /\ leafs' = d.s
                /\ served' = Append(served, Served(resp))
                /\ UNCHANGED <<low, high, last_leaf, head, events, requests>>
           ELSE /\ served' = Append(served, Served(resp))
                /\ IF d.out.leaf.timestamp = timestamp
                   THEN /\ FoundLeaf(op, mid, d.out.leaf, events)
                        /\ leafs' = d.s
                        /\ UNCHANGED <<low, high, last_leaf, requests>>
                   ELSE IF d.out.leaf.timestamp < timestamp
                   THEN SearchFrom(op, mid + 1, high, last_leaf, d.s, events,
                                   requests)
                   ELSE SearchFrom(op, low, mid, Last(mid, d.out.leaf), d.s,
                                   events, requests)
    /\ UNCHANGED <<trust, updvars, timestamp, callvars, proof_resp, handled,
                   streamvars,
                   config, servars>>
\* The server answers the probe as it likes.
SearchResponse ==
    /\ pc = "search"
    /\ \E resp \in EntriesResponses(SearchBatches(leafs.next_index)) :
         SearchAnswer(resp)

\* get-proof-by-hash answered: fetch_inclusion_proof returns the index and
\* the root its audit path computes; then the rest of first_tree_head_after
\* and rollback_to_timestamp up to the consistency proof.
InclusionErrors == FetchErrors
\* (mutation) first_tree_head_after goes on to roll back
RollsBackAlways(o) == TRUE
\* rollback_to_timestamp is the caller of first_tree_head_after
RollsBack(o) == o = "rollback"
InclResponse ==
    /\ pc = "incl"
    /\ \/ /\ \E e \in InclusionErrors : Return(Res("Err", e, 0, NoSth))
          /\ UNCHANGED <<head, events>>
       \/ \E leaf_index \in {head.idx, head.idx + 1},
             calculated_tree_hash \in {LogRoot(head.tsize), ForgedHash} :
            IF leaf_index # head.idx
            THEN /\ Return(Res("Err", "Unknown", 0, NoSth))
                 /\ UNCHANGED <<head, events>>
            ELSE /\ head' = [head EXCEPT !.thash = calculated_tree_hash]
                 /\ IF RollsBack(op) /\ head.tsize < latest_size
                    THEN /\ pc' = "rb_cons"
                         /\ events' = Append(events, "get-sth-consistency")
                         /\ UNCHANGED result
                    ELSE /\ Return(Res("Ok", "", 0, NoSth))
                         /\ UNCHANGED events
    /\ UNCHANGED <<trust, updvars, leafs, timestamp, low, high, last_leaf,
                   callvars, proof_resp, handled, requests, served, streamvars,
                   config, servars>>

\* (mutation) the result of the consistency check is dropped
RollbackConsResponseUnchecked ==
    /\ pc = "rb_cons"
    /\ \E resp \in ConsistencyResponses(head.tsize, latest_size) :
         /\ proof_resp' = resp
         /\ Commit(head.tsize, head.thash)
         /\ events' = Append(events, "commit")
         /\ Return(Res("Ok", "", 0, NoSth))
    /\ UNCHANGED <<updvars, leafs, searchvars, callvars, handled, requests, served,
                   streamvars, config, servars>>
\* get-sth-consistency answered: the proof from the earlier head to the
\* trusted head, then the rollback itself.
RollbackConsResponse ==
    /\ pc = "rb_cons"
    /\ \E resp \in ConsistencyResponses(head.tsize, latest_size) :
         LET r == check_consistency_proof(head.tsize, latest_size, head.thash,
                                          latest_tree_hash, resp)
         IN  /\ proof_resp' = resp
             /\ IF ~r.ok
                THEN /\ Return(Res("Err", r.err, 0, NoSth))
                     /\ UNCHANGED <<trust, events>>
                ELSE /\ Commit(head.tsize, head.thash)
                     /\ events' = Append(events, "commit")
                     /\ Return(Res("Ok", "", 0, NoSth))
    /\ UNCHANGED <<updvars, leafs, searchvars, callvars, handled, requests, served,
                   streamvars,
                   config, servars>>

\* ------------------------------------------------- the reading operations
\* A call that takes &self starts: what every such call sets.
StartRead(o) ==
    /\ pc \in {"idle", "done"}
    /\ op' = o
    /\ pre' = <<latest_size, latest_tree_hash>>
    /\ proof_resp' = NoProof
    /\ cert_handler' = FALSE
    /\ ResetUpdate /\ ResetSearch
    /\ leafs' = NoStream
    /\ requests' = <<>>
    /\ served' = <<>>
    /\ UNCHANGED <<trust, streamvars, config>>

\* check_inclusion_proof_for_sct(sct): the tree head is read and
\* check_inclusion_proof awaits get-proof-by-hash.
CallCheckInclusionSct ==
    /\ StartRead("check_inclusion_proof_for_sct")
    /\ pc' = "sct_incl"
    /\ result' = Res("None", "", 0, NoSth)
    /\ events' = <<"get-proof-by-hash">>
    /\ bytes' = <<>>
    /\ UNCHANGED restored

\* get-proof-by-hash answered: a failed exchange, an audit path that does
\* not lead to the trusted root, or the index of the leaf.
SctInclResponse ==
    /\ pc = "sct_incl"
    /\ \/ \E e \in InclusionErrors : Return(Res("Err", e, 0, NoSth))
       \/ \E leaf_index \in 0..MaxSize,
             calculated_tree_hash \in {LogRoot(latest_size), ForgedHash} :
            IF calculated_tree_hash # latest_tree_hash
            THEN Return(Res("Err", "InvalidInclusionProof", leaf_index, NoSth))
            ELSE Return(Res("Ok", "", leaf_index, NoSth))
    /\ UNCHANGED <<trust, updvars, leafs, searchvars, callvars, proof_resp, events,
                   handled, requests, served, streamvars, config, servars>>

\* check_leaf(leaf, cert_handler) called by the user of the library: the
\* chain is checked, then the handler, if any, is called.
CallCheckLeaf(leaf, h) ==
    /\ StartRead("check_leaf")
    /\ IF check_leaf(leaf) # ""
       THEN /\ Return(Res("Err", check_leaf(leaf), 0, NoSth))
            /\ events' = <<>>
       ELSE /\ Return(Res("Ok", "", 0, NoSth))
            /\ events' = IF h THEN <<"handler">> ELSE <<>>
    /\ bytes' = <<>>
    /\ UNCHANGED restored

\* get_checked_tree_head()
CallGetCheckedTreeHead ==
    /\ StartRead("get_checked_tree_head")
    /\ Return(Res("Ok", "", 0, [tree_size |-> latest_size,
                                 root_hash |-> latest_tree_hash]))
    /\ events' = <<>>
    /\ bytes' = <<>>
    /\ UNCHANGED restored

\* as_bytes()
CallAsBytes ==
    /\ StartRead("as_bytes")
    /\ bytes' = as_bytes(base_url, latest_size, latest_tree_hash, pub_key)
    /\ Return(Res("Ok", "", 0, NoSth))
    /\ events' = <<>>
    /\ UNCHANGED restored

\* ------------------------------------------------------------ specification
Next ==
    \/ \E h \in BOOLEAN : CallUpdate(h)
    \/ SthResponse
    \/ ConsLessResponse
    \/ ConsGreaterResponse
    \/ EntriesResponse
    \/ LoopPoll
    \/ VerifyAndCommit
    \/ \E ts \in 0..MaxTs : CallRollback(ts)
    \/ \E ts \in 0..MaxTs : CallFirstLeafAfter(ts)
    \/ \E ts \in 0..MaxTs : CallFirstTreeHeadAfter(ts)
    \/ CallCheckInclusionSct
    \/ SctInclResponse
    \/ \E e \in {HonestEntry(0), Faulty(HonestEntry(0), "badcert")}, h \in BOOLEAN :
          CallCheckLeaf(LeafOf(e), h)
    \/ CallGetCheckedTreeHead
    \/ CallAsBytes
    \/ SearchResponse
    \/ InclResponse
    \/ RollbackConsResponse
    \/ Cancel

Spec == Init /\ [][Next]_vars

\* ------------------------------------------- get_entries read on its own
\* A caller creates get_entries(start..end, batch_size) and polls it; the
\* log answers every request.  yielded collects what next() returned.
MaxPolls == MaxRange + 2

\* Answers to get-entries?start=s&end=e: any number of the requested
\* entries from none to one too many, or the full answer with one entry
\* unparsable.
StreamBatches(s, e) ==
    {HonestBatch(s, k) : k \in 0..(e - s + 2)}
    \cup {[HonestBatch(s, e - s + 1) EXCEPT ![f] = Faulty(@, "garbage")] :
             f \in 1..(e - s + 1)}

\* An honest answer: a non-empty prefix of the requested entries.
HonestAnswer(s, e, resp) ==
    /\ resp.err = ""
    /\ \E k \in 1..(e - s + 1) : resp.entries = HonestBatch(s, k)

StreamInit ==
    /\ latest_size = 0
    /\ latest_tree_hash = EmptyHash
    /\ op = "stream"
    /\ pc = "s_poll"
    /\ proof_resp = NoProof
    /\ cert_handler = FALSE
    /\ sth = NoSth
    /\ consistency_proof_parts = <<>>
    /\ i = 0
    /\ leaf_hashes = <<>>
    /\ \E start \in 0..MaxRange, batch_size \in 1..MaxRange :
         \E range_end \in start..MaxRange :
            leafs = NewStream(start, range_end, batch_size)
    /\ timestamp = 0
    /\ low = 0 /\ high = 0 /\ last_leaf = NoLast
    /\ head = NoHead
    /\ result = Res("None", "", 0, NoSth)
    /\ pre = <<latest_size, latest_tree_hash>>
    /\ events = <<>>
    /\ handled = <<>>
    /\ requests = <<>>
    /\ served = <<>>
    /\ yielded = <<>>
    /\ stream_honest = TRUE
    /\ base_url = LogUrl /\ pub_key = LogKey
    /\ log_ts = LogTimestamps
    /\ x509_leaf = NoX509Leaf
    /\ bytes = <<>> /\ restored = NoClient("")

\* The caller polls next(): the generator runs until it yields, finishes or
\* suspends in a request.
StreamPoll ==
    /\ pc = "s_poll"
    /\ Len(yielded) < MaxPolls
    /\ LET d == Resume(leafs)
       IN  /\ leafs' = d.s
           /\ IF d.out.k = "Pending"
              THEN /\ pc' = "s_wait"
                   /\ requests' = Append(requests, <<d.s.next_index, d.s.end - 1>>)
                   /\ UNCHANGED yielded
              ELSE /\ yielded' = Append(yielded, d.out)
                   /\ UNCHANGED <<pc, requests>>
    /\ UNCHANGED <<trust, updvars, searchvars, result, callvars, proof_resp,
                   events, handled, served, stream_honest, config, servars>>

\* The log answers the request the generator is suspended in.
StreamResponse ==
    /\ pc = "s_wait"
    /\ \E resp \in EntriesResponses(StreamBatches(leafs.next_index, leafs.end - 1)) :
         LET d == Deliver(leafs, resp)
         IN  /\ leafs' = d.s
             /\ yielded' = Append(yielded, d.out)
             /\ served' = Append(served, Served(resp))
             /\ stream_honest' = (stream_honest
                                  /\ HonestAnswer(leafs.next_index, leafs.end - 1, resp))
    /\ pc' = "s_poll"
    /\ UNCHANGED <<trust, updvars, searchvars, result, callvars, proof_resp,
                   events, handled, requests, config, servars>>

StreamNext == StreamPoll \/ StreamResponse

SpecStream == StreamInit /\ [][StreamNext]_vars

\* ------------------------------------- the consistency check on its own
\* RFC 6962 2.1.2: SUBPROOF(m, D[n], b) computed from the leaf hashes D.
RECURSIVE RfcSubproof(_, _, _)
RfcSubproof(m, D, flag) ==
    LET n == Len(D)
    IN  IF m = n
        THEN IF flag THEN <<>> ELSE <<MerkleRoot(D)>>
        ELSE LET k == largest_power_of_two_less_than(n)
             IN  IF m <= k
                 THEN RfcSubproof(m, SubSeq(D, 1, k), flag)
                          \o <<MerkleRoot(SubSeq(D, k + 1, n))>>
                 ELSE RfcSubproof(m - k, SubSeq(D, k + 1, n), FALSE)
                          \o <<MerkleRoot(SubSeq(D, 1, k))>>
\* PROOF(m, D[n]) = SUBPROOF(m, D[n], true); nothing is to prove for m = 0.
RfcProof(m, D) == IF m = 0 THEN <<>> ELSE RfcSubproof(m, D, TRUE)

\* Leaf sequences a log may hold: bit j of mask tells whether leaf j is the
\* true one or one with other content.
RECURSIVE TwoTo(_)
TwoTo(n) == IF n = 0 THEN 1 ELSE 2 * TwoTo(n - 1)
LeafSeq(n, mask) ==
    [j \in 1..n |-> IF (mask \div TwoTo(j - 1)) % 2 = 1
                    THEN LeafHash(j - 1 + 100) ELSE LogLeafHash(j - 1)]
LeafSeqs(n) == {LeafSeq(n, mask) : mask \in 0..(TwoTo(n) - 1)}

\* Hashes a tampering server may put in place of another.
TamperHashes(n) ==
    {ForgedHash} \cup UNION {{D[j] : j \in 1..n} : D \in LeafSeqs(n)}
                 \cup {LogRangeRoot(lo, n) : lo \in 0..n}

\* Proof lists handed to the check for a log holding D: the RFC list, with
\* the last hash dropped, with one appended, or with one hash replaced.
ProofVariants(a, D) ==
    LET h == RfcProof(a, D)
    IN  {h, Append(h, ForgedHash)}
        \cup {[h EXCEPT ![j] = ForgedHash] : j \in 1..Len(h)}
        \cup (IF Len(h) > 0 THEN {SubSeq(h, 1, Len(h) - 1)} ELSE {})

\* The inputs: sizes a <= b, a log content D, the trusted root, the claimed
\* root and the proof list.
VerifyInit ==
    /\ \E a \in 0..MaxSize :
         \E b \in a..MaxSize :
            \E D \in LeafSeqs(b) :
               /\ latest_size = a
               /\ latest_tree_hash \in {LogRoot(a), MerkleRoot(SubSeq(D, 1, a)),
                                        ForgedHash}
               /\ \E r \in {LogRoot(b), MerkleRoot(D), ForgedHash} :
                     sth = [tree_size |-> b, root_hash |-> r]
               /\ \E P \in ProofVariants(a, D) :
                     proof_resp = [err |-> "", proof |-> P]
    /\ op = "verify"
    /\ pc = "v_call"
    /\ cert_handler = FALSE
    /\ consistency_proof_parts = <<>>
    /\ i = 0
    /\ leaf_hashes = <<>>
    /\ leafs = NoStream
    /\ timestamp = 0
    /\ low = 0 /\ high = 0 /\ last_leaf = NoLast
    /\ head = NoHead
    /\ result = Res("None", "", 0, NoSth)
    /\ pre = <<latest_size, latest_tree_hash>>
    /\ events = <<>>
    /\ handled = <<>>
    /\ requests = <<>>
    /\ served = <<>>
    /\ yielded = <<>>
    /\ stream_honest = TRUE
    /\ base_url = LogUrl /\ pub_key = LogKey
    /\ log_ts = LogTimestamps
    /\ x509_leaf = NoX509Leaf
    /\ bytes = <<>> /\ restored = NoClient("")

\* check_consistency_proof(a, b, Ra, Rb) on the proof list received.
VerifyCall ==
    /\ pc = "v_call"
    /\ LET r == check_consistency_proof(latest_size, sth.tree_size, latest_tree_hash,
                                        sth.root_hash, proof_resp)
       IN  /\ consistency_proof_parts' = r.parts
           /\ IF r.ok THEN Return(Res("Ok", "", 0, NoSth))
              ELSE Return(Res("Err", r.err, 0, NoSth))
    /\ UNCHANGED <<trust, op, cert_handler, sth, i, leaf_hashes, leafs, searchvars,
                   pre, proof_resp, events, handled, requests, served, streamvars,
                   config, servars>>

\* An accepted input is handed in again with one hash of the proof list, or
\* the claimed root, replaced by a different hash.
TamperAccepted ==
    /\ pc = "done" /\ op = "verify" /\ result.kind = "Ok"
    /\ \/ \E j \in 1..Len(proof_resp.proof) :
            \E h \in TamperHashes(sth.tree_size) \ {proof_resp.proof[j]} :
               /\ proof_resp' = [proof_resp EXCEPT !.proof[j] = h]
               /\ UNCHANGED sth
       \/ \E h \in TamperHashes(sth.tree_size) \ {sth.root_hash} :
            /\ sth' = [sth EXCEPT !.root_hash = h]
            /\ UNCHANGED proof_resp
    /\ op' = "verify_tampered"
    /\ pc' = "v_call"
    /\ result' = Res("None", "", 0, NoSth)
    /\ consistency_proof_parts' = <<>>
    /\ UNCHANGED <<trust, cert_handler, i, leaf_hashes, leafs, searchvars, pre,
                   events, handled, requests, served, streamvars,
                   config, servars>>

VerifyNext == VerifyCall \/ TamperAccepted

SpecVerify == VerifyInit /\ [][VerifyNext]_vars

\* ------------------------------------------- as_bytes and from_bytes
\* Strings and DER the constructors are given; the client holds what
\* Url::parse and public_key_from_der make of them.
RawUrls == {<<104, 47>>, <<72, 47>>, <<104, 1, 47>>, <<104>>}
RawKeys == {<<48, 0>>, <<48, 1, 0>>, <<48, 2, 255, 7>>, <<48, 0, 9>>}
\* `bytes[len - 1] ^= 1`
Flip(x) == IF x % 2 = 0 THEN x + 1 ELSE x - 1

BytesInit ==
    /\ log_ts = LogTimestamps
    /\ x509_leaf = NoX509Leaf
    /\ base_url \in {UrlParse(r).url : r \in RawUrls}
    /\ pub_key \in {public_key_from_der(d).key : d \in RawKeys}
    /\ latest_size \in {0, 1, MaxSize, 258, HugeSize}
    /\ latest_tree_hash \in {EmptyHash, LogRoot(2), ForgedHash}
    /\ bytes = <<>> /\ restored = NoClient("")
    /\ op = "bytes"
    /\ pc = "b_idle"
    /\ proof_resp = NoProof
    /\ cert_handler = FALSE
    /\ sth = NoSth
    /\ consistency_proof_parts = <<>>
    /\ i = 0
    /\ leaf_hashes = <<>>
    /\ leafs = NoStream
    /\ timestamp = 0
    /\ low = 0 /\ high = 0 /\ last_leaf = NoLast
    /\ head = NoHead
    /\ result = Res("None", "", 0, NoSth)
    /\ pre = <<latest_size, latest_tree_hash>>
    /\ events = <<>>
    /\ handled = <<>>
    /\ requests = <<>>
    /\ served = <<>>
    /\ yielded = <<>>
    /\ stream_honest = TRUE

\* what the steps on byte strings leave alone
BytesFrame ==
    UNCHANGED <<trust, updvars, leafs, searchvars, result, pre, proof_resp, events,
                handled, requests, served, streamvars, config>>

\* c.as_bytes()
AsBytes ==
    /\ pc = "b_idle"
    /\ bytes' = as_bytes(base_url, latest_size, latest_tree_hash, pub_key)
    /\ pc' = "b_ser"
    /\ UNCHANGED <<op, restored>>
    /\ BytesFrame

\* The byte string loses its end.
Truncate ==
    /\ pc = "b_ser"
    /\ \E k \in 0..(Len(bytes) - 1) : bytes' = Take(bytes, k)
    /\ op' = "truncated" /\ pc' = "b_bad"
    /\ UNCHANGED restored
    /\ BytesFrame
\* A byte follows the checksum.
Extend ==
    /\ pc = "b_ser"
    /\ \E x \in {0, 255} : bytes' = Append(bytes, x)
    /\ op' = "extended" /\ pc' = "b_bad"
    /\ UNCHANGED restored
    /\ BytesFrame
\* One byte is changed in its low bit.
FlipByte ==
    /\ pc = "b_ser"
    /\ \E j \in 1..Len(bytes) : bytes' = [bytes EXCEPT ![j] = Flip(@)]
    /\ op' = "flipped" /\ pc' = "b_bad"
    /\ UNCHANGED restored
    /\ BytesFrame
\* The version byte is that of a later format.
SetVersion ==
    /\ pc = "b_ser"
    /\ \E v \in {2, 255} : bytes' = [bytes EXCEPT ![1] = v]
    /\ op' = "version" /\ pc' = "b_bad"
    /\ UNCHANGED restored
    /\ BytesFrame

\* CTClient::from_bytes(&bytes)
FromBytes ==
    /\ pc \in {"b_ser", "b_bad"}
    /\ restored' = from_bytes(bytes)
    /\ pc' = "done"
    /\ UNCHANGED <<op, bytes>>
    /\ BytesFrame

BytesNext == AsBytes \/ Truncate \/ Extend \/ FlipByte \/ SetVersion \/ FromBytes

SpecBytes == BytesInit /\ [][BytesNext]_vars

\* ------------------------------------------------------------------------
\* The searching operations against a log that answers get-entries with its
\* own leaves: leaf timestamps are any non-decreasing sequence.
\* ------------------------------------------------------------------------

\* the sequences of n timestamps that never decrease
NonDecreasing(n) ==
    {ts \in [1..n -> 0..MaxTs] : \A j \in 1..(n - 1) : ts[j] <= ts[j + 1]}

SearchInit ==
    /\ latest_size \in 0..MaxSize
    /\ latest_tree_hash = LogRoot(latest_size)
    /\ log_ts \in NonDecreasing(MaxSize + 1)
    /\ x509_leaf = NoX509Leaf
    /\ op = "none"
    /\ pc = "idle"
    /\ proof_resp = NoProof
    /\ cert_handler = FALSE
    /\ sth = NoSth
    /\ consistency_proof_parts = <<>>
    /\ i = 0
    /\ leaf_hashes = <<>>
    /\ leafs = NoStream
    /\ timestamp = 0
    /\ low = 0 /\ high = 0 /\ last_leaf = NoLast
    /\ head = NoHead
    /\ result = Res("None", "", 0, NoSth)
    /\ pre = <<latest_size, latest_tree_hash>>
    /\ events = <<>>
    /\ handled = <<>>
    /\ requests = <<>>
    /\ served = <<>>
    /\ yielded = <<>>
    /\ stream_honest = TRUE
    /\ base_url = LogUrl /\ pub_key = LogKey
    /\ bytes = <<>> /\ restored = NoClient("")

\* the leaf the log holds at index mid
LogEntry(mid) == [HonestEntry(mid) EXCEPT !.timestamp = log_ts[mid + 1]]

\* get-entries answers the probe with the log's leaf, or the fetch fails.
LogSearchResponse ==
    /\ pc = "search"
    /\ \E resp \in EntriesResponses({<<LogEntry(leafs.next_index)>>}) :
         SearchAnswer(resp)

SearchNext ==
    \/ \E ts \in 0..(MaxTs + 1) : CallFirstLeafAfter(ts)
    \/ \E ts \in 0..(MaxTs + 1) : CallFirstTreeHeadAfter(ts)
    \/ \E ts \in 0..(MaxTs + 1) : CallRollback(ts)
    \/ LogSearchResponse
    \/ InclResponse
    \/ RollbackConsResponse

SpecSearch == SearchInit /\ [][SearchNext]_vars

\* ------------------------------------------------------------------------
\* A catch-up over more leaves than one get-entries request of update asks
\* for: a client that trusts the empty tree reads a log of a little more
\* than UpdateBatch leaves, handler given.
\* ------------------------------------------------------------------------

\* the tree heads of that log
LongSthChoices ==
    {[tree_size |-> UpdateBatch + n, root_hash |-> ForgedHash] : n \in 1..2}

CatchUpInit == Init /\ latest_size = 0 /\ latest_tree_hash = EmptyHash

CatchUpNext ==
    \/ CallUpdate(TRUE)
    \/ SthAnswer(LongSthChoices)
    \/ ConsGreaterResponse
    \/ EntriesResponse
    \/ LoopPoll

SpecCatchUp == CatchUpInit /\ [][CatchUpNext]_vars

\* ------------------------------------------------------------------------
\* check_leaf called on its own with a leaf of any shape.
\* ------------------------------------------------------------------------

\* longest certificate chain of a leaf
MaxChain == 3

\* The certificate at position j of a chain: the one issued by the next
\* position, or that certificate with one thing wrong.
CertChoices(j) ==
    LET good == [der |-> "ok", name |-> j, issuer |-> j + 1, key |-> "ok",
                 alg |-> "ok"]
    IN  {good,
         [good EXCEPT !.der = "garbage"],
         [good EXCEPT !.issuer = 0],
         [good EXCEPT !.key = "bad"],
         [good EXCEPT !.alg = "unsupported"]}

Chains ==
    UNION {{c \in [1..n -> UNION {CertChoices(j) : j \in 1..MaxChain}] :
               \A j \in 1..n : c[j] \in CertChoices(j)} : n \in 0..MaxChain}

\* tbs_cert of the entry: none, that of chain[0], that of chain[0] under
\* the issuer's issuer, or another one
TbsChoices == {<<>>, <<1, 2>>, <<1, 3>>, <<1, 0>>}

LeafInit ==
    /\ latest_size = 0
    /\ latest_tree_hash = EmptyHash
    /\ op = "check_leaf"
    /\ pc = "l_call"
    /\ proof_resp = NoProof
    /\ cert_handler \in BOOLEAN
    /\ x509_leaf \in [x509_chain : Chains, tbs_cert : TbsChoices,
                       clone_ok : BOOLEAN]
    /\ sth = NoSth
    /\ consistency_proof_parts = <<>>
    /\ i = 0
    /\ leaf_hashes = <<>>
    /\ leafs = NoStream
    /\ timestamp = 0
    /\ low = 0 /\ high = 0 /\ last_leaf = NoLast
    /\ head = NoHead
    /\ result = Res("None", "", 0, NoSth)
    /\ pre = <<latest_size, latest_tree_hash>>
    /\ events = <<>>
    /\ handled = <<>>
    /\ requests = <<>>
    /\ served = <<>>
    /\ yielded = <<>>
    /\ stream_honest = TRUE
    /\ base_url = LogUrl /\ pub_key = LogKey
    /\ log_ts = LogTimestamps
    /\ bytes = <<>> /\ restored = NoClient("")

\* check_leaf(&x509_leaf, &mut cert_handler) runs to its return.
CheckLeaf ==
    /\ pc = "l_call"
    /\ LET r == check_leaf_x509(x509_leaf, cert_handler)
       IN  /\ handled' = r.calls
           /\ IF r.err # "" THEN Return(Res("Err", r.err, 0, NoSth))
              ELSE Return(Res("Ok", "", 0, NoSth))
    /\ UNCHANGED <<trust, updvars, leafs, searchvars, callvars, proof_resp,
                   events, requests, served, streamvars, config, servars>>

LeafNext == CheckLeaf

SpecLeaf == LeafInit /\ [][LeafNext]_vars

\* ================================================================ properties
\* update has returned a value (not panicked, not been dropped)
UpdateReturned == op = "update" /\ pc = "done" /\ result.kind \in {"Ok", "Err", "ErrWithSth"}
\* the root of the slice of leaf_hashes a part covers
SliceRoot(part, i_start, hashes) ==
    MerkleRoot(SubSeq(hashes, part.subtree[1] - i_start + 1, part.subtree[2] - i_start))

\* C1: when update returns Err or ErrWithSth, (latest_size,
\* latest_tree_hash) equals its value before the call.
C1_FailedUpdateKeepsTrust ==
    (UpdateReturned /\ result.kind \in {"Err", "ErrWithSth"}) => trust = pre
C1_Witness ==
    /\ UpdateReturned /\ result.kind = "ErrWithSth"
    /\ result.err = "BadCertificate" /\ Len(handled) > 0

\* C2: in handler mode with new_size > latest_size, update commits
\* (new_size, new_root) and returns Ok only if every part's node_hash equals
\* the root recomputed from its slice of the downloaded leaf hashes; once all
\* leaves are read, one mismatching part gives
\* ErrWithSth(CannotVerifyTreeData, sth) and no commit.
C2_ObligationsGuardCommit ==
    (UpdateReturned /\ cert_handler /\ sth # NoSth /\ sth.tree_size > pre[1]) =>
        LET parts == consistency_proof_parts
            holds(j) == SliceRoot(parts[j], pre[1], leaf_hashes) = parts[j].node_hash
        IN  /\ (result.kind = "Ok" \/ trust # pre) =>
                  /\ i = sth.tree_size
                  /\ Len(leaf_hashes) = sth.tree_size - pre[1]
                  /\ \A j \in 1..Len(parts) : holds(j)
                  /\ result = Res("Ok", "", 0, sth)
                  /\ trust = <<sth.tree_size, sth.root_hash>>
            /\ (i = sth.tree_size /\ \E j \in 1..Len(parts) : ~holds(j)) =>
                  /\ result = Res("ErrWithSth", "CannotVerifyTreeData", 0, sth)
                  /\ trust = pre
C2_Witness ==
    /\ UpdateReturned /\ cert_handler /\ sth.tree_size > pre[1]
    /\ result.err = "CannotVerifyTreeData"
    /\ Len(consistency_proof_parts) >= 2
    /\ SliceRoot(consistency_proof_parts[1], pre[1], leaf_hashes)
          = consistency_proof_parts[1].node_hash

\* C3: a signature-valid STH of the trusted size with a different root makes
\* update return ErrWithSth(InvalidConsistencyProof, sth) with that STH and
\* leave the trust state unchanged.
C3_ForkDetected ==
    (op = "update" /\ pc = "done" /\ sth # NoSth
        /\ sth.tree_size = pre[1] /\ sth.root_hash # pre[2]) =>
        /\ result = Res("ErrWithSth", "InvalidConsistencyProof", 0, sth)
        /\ tree_head(result) = <<sth>>
        /\ trust = pre
C3_Witness ==
    /\ op = "update" /\ pc = "done" /\ sth # NoSth
    /\ sth.tree_size = pre[1] /\ sth.root_hash # pre[2]
    /\ pre[1] > 0

\* C4: update returns Err only when fetching or verifying the STH failed;
\* every failure after a valid STH was obtained is ErrWithSth carrying that
\* STH, and tree_head() is Some of it.
C4_ErrorCarriesSth ==
    UpdateReturned =>
        /\ result.kind = "Err" =>
              (sth = NoSth /\ result.err \in SthErrors /\ events = <<"get-sth">>)
        /\ (sth # NoSth /\ result.kind # "Ok") =>
              /\ result.kind = "ErrWithSth"
              /\ result.sth = sth
              /\ tree_head(result) = <<sth>>
        /\ sth = NoSth => result.kind = "Err"
C4_Witness ==
    /\ UpdateReturned /\ result.kind = "ErrWithSth"
    /\ result.err = "NetIO" /\ served = <<0 - 1>>

\* C5: when new_size < latest_size and the proof from the smaller STH to the
\* trusted head verifies, update returns Ok(sth) and the trusted head is
\* not shrunk.
C5_RollbackNotAdopted ==
    (UpdateReturned /\ sth # NoSth /\ sth.tree_size < pre[1]
        /\ proof_resp.err = ""
        /\ verify_consistency_proof(sth.tree_size, pre[1], proof_resp.proof,
                                    sth.root_hash, pre[2]).ok) =>
        /\ result = Res("Ok", "", 0, sth)
        /\ trust = pre
C5_Witness ==
    /\ UpdateReturned /\ result.kind = "Ok"
    /\ sth.tree_size > 0 /\ sth.tree_size < pre[1]
    /\ proof_resp.proof # <<>>

\* C6: update never panics, whatever the server answers: the asserts, the
\* slice of leaf_hashes and the allocation of new_tree_size - i_start hash
\* slots never fail.
C6_UpdateNeverPanics == ~(op = "update" /\ pc = "panicked")

\* C7: when the answer to the request [s, e] has k entries, 0 < k < e - s + 1,
\* the next request of the stream starts at s + k.
C7_ReissuesFromFirstUnseen ==
    \A j \in 1..Len(served) :
        (j < Len(requests) /\ served[j] > 0
            /\ served[j] < requests[j][2] - requests[j][1] + 1) =>
        requests[j + 1][1] = requests[j][1] + served[j]

\* C8: with an honest server, reading get_entries(start..end, batch) to
\* exhaustion yields exactly end - start leaves, the k-th being the log
\* entry start + k.
C8_HonestStreamCoversRange ==
    (op = "stream" /\ stream_honest /\ yielded # <<>>
        /\ yielded[Len(yielded)].k = "None") =>
        LET IsSome(o) == o.k = "Some"
            got == SelectSeq(yielded, IsSome)
        IN  /\ Len(got) = leafs.range_end - leafs.range_start
            /\ \A k \in 1..Len(got) : got[k].leaf.idx = leafs.range_start + k - 1

\* C9: within one update the STH fetch precedes the consistency-proof fetch,
\* which precedes every get-entries request and handler call, which precede
\* the commit; after a failed step nothing of the call follows, in
\* particular no commit.
EventRank(e) ==
    CASE e = "get-sth" -> 0
      [] e = "get-sth-consistency" -> 1
      [] e = "get-entries" -> 2
      [] e = "handler" -> 2
      [] e = "commit" -> 3
      [] OTHER -> 4
CommittedHead ==
    IF op = "update" THEN <<sth.tree_size, sth.root_hash>>
    ELSE <<head.tsize, head.thash>>
C10_CancellationSafe ==
    op \in {"update", "rollback"} =>
        /\ pc \in AwaitPcs => trust = pre
        /\ result.kind = "Cancelled" => trust = pre
        /\ \/ trust = pre
           \/ pc = "done" /\ result.kind = "Ok" /\ trust = CommittedHead
C10_Witness ==
    /\ op = "rollback" /\ pc = "done" /\ result.kind = "Ok"
    /\ trust # pre

\* C11: light mode (handler None) with new_size > latest_size: update commits
\* (new_size, new_root) and returns Ok as soon as the consistency proof from
\* latest_size to new_size verifies, with no get-entries request and no
\* obligation checked against leaves; when the consistency check fails it
\* returns ErrWithSth and does not commit.
C11_LightCommitsOnProof ==
    (UpdateReturned /\ ~cert_handler /\ sth # NoSth /\ sth.tree_size > pre[1]) =>
        LET r == check_consistency_proof(pre[1], sth.tree_size, pre[2],
                                         sth.root_hash, proof_resp)
        IN  /\ requests = <<>> /\ served = <<>>
            /\ leaf_hashes = <<>> /\ handled = <<>>
            /\ \A j \in 1..Len(events) : events[j] \notin {"get-entries", "handler"}
            /\ r.ok => /\ result = Res("Ok", "", 0, sth)
                       /\ trust = <<sth.tree_size, sth.root_hash>>
                       /\ events = <<"get-sth", "get-sth-consistency", "commit">>
            /\ ~r.ok => /\ result = Res("ErrWithSth", r.err, 0, sth)
                        /\ trust = pre
C11_Witness ==
    /\ UpdateReturned /\ ~cert_handler /\ result.kind = "Ok"
    /\ pre[1] > 0 /\ sth.tree_size > pre[1]
    /\ consistency_proof_parts # <<>>
    /\ trust = <<sth.tree_size, sth.root_hash>>

\* The proof list P and the root Rb are those of a leaf sequence of length b
\* whose first a leaves hash to Ra.
Derivable(a, b, P, Ra, Rb) ==
    \E D \in LeafSeqs(b) :
        /\ MerkleRoot(SubSeq(D, 1, a)) = Ra
        /\ MerkleRoot(D) = Rb
        /\ P = RfcProof(a, D)
VerifyReturned == op \in {"verify", "verify_tampered"} /\ pc = "done"
Rejected == result = Res("Err", "InvalidConsistencyProof", 0, NoSth)
\* the trusted root is the hash of a tree of latest_size leaves
TrustedIsTreeHash == \E D \in LeafSeqs(latest_size) : MerkleRoot(D) = latest_tree_hash

\* C12 (as stated): for any a <= b and trusted root Ra the consistency check
\* accepts a proof list iff the list and Rb are derivable from a leaf
\* sequence of length b whose first a leaves hash to Ra; replacing one hash
\* of the list, or Rb, by a different hash gives InvalidConsistencyProof.
C12_AcceptsIffDerivable ==
    (VerifyReturned /\ TrustedIsTreeHash) =>
        /\ (result.kind = "Ok") <=>
              Derivable(latest_size, sth.tree_size, proof_resp.proof,
                        latest_tree_hash, sth.root_hash)
        /\ op = "verify_tampered" => Rejected

\* C12 (amended): for 0 < a <= b and trusted root Ra the check accepts a
\* proof list iff the list and Rb are derivable from a leaf sequence of
\* length b whose first a leaves hash to Ra, and replacing one hash of the
\* list, or Rb, by a different hash gives InvalidConsistencyProof.  For
\* a = 0 < b it accepts every proof list and every Rb and returns the single
\* obligation (0, b) with expected hash Rb.
C12_SoundAboveZero ==
    VerifyReturned =>
        LET a == latest_size
            b == sth.tree_size
        IN  /\ (0 < a /\ TrustedIsTreeHash) =>
                  ((result.kind = "Ok") <=>
                      Derivable(a, b, proof_resp.proof, latest_tree_hash,
                                sth.root_hash))
            /\ (0 < a /\ op = "verify_tampered") => Rejected
            /\ (a = 0 /\ b > 0) =>
                  /\ result.kind = "Ok"
                  /\ consistency_proof_parts =
                        << [subtree |-> <<0, b>>, node_hash |-> sth.root_hash] >>
            /\ result.kind # "Ok" => Rejected
C12_Witness ==
    /\ VerifyReturned /\ op = "verify_tampered" /\ Rejected
    /\ latest_size = 3 /\ sth.tree_size = 4
    /\ Len(proof_resp.proof) = 3

\* C13: from trusted size 0 a handler-mode update to an STH of size b > 0
\* accepts any consistency proof list, the empty one included, and has the
\* single obligation (0, b) with expected hash Rb: it commits (b, Rb) only if
\* the Merkle tree hash of all b downloaded leaf hashes equals Rb.
C13_FromZeroRootRecomputed ==
    (UpdateReturned /\ cert_handler /\ pre[1] = 0 /\ sth # NoSth
        /\ sth.tree_size > 0) =>
        LET b == sth.tree_size
        IN  /\ proof_resp.err = "" =>
                  /\ consistency_proof_parts =
                        << [subtree |-> <<0, b>>, node_hash |-> sth.root_hash] >>
                  /\ result.err # "InvalidConsistencyProof"
                  /\ Len(events) >= 3 /\ events[3] = "get-entries"
            /\ (result.kind = "Ok" \/ trust # pre) =>
                  /\ Len(leaf_hashes) = b
                  /\ MerkleRoot(leaf_hashes) = sth.root_hash
                  /\ result = Res("Ok", "", 0, sth)
                  /\ trust = <<b, sth.root_hash>>
            /\ (i = b /\ MerkleRoot(leaf_hashes) # sth.root_hash) =>
                  /\ result = Res("ErrWithSth", "CannotVerifyTreeData", 0, sth)
                  /\ trust = pre
C13_Witness ==
    /\ UpdateReturned /\ cert_handler /\ pre[1] = 0 /\ sth.tree_size >= 3
    /\ proof_resp.proof # <<>>
    /\ result.kind = "Ok" /\ trust = <<sth.tree_size, sth.root_hash>>

\* C14: for every client state, from_bytes(as_bytes(S)) succeeds and yields
\* a client with the same base_url, latest_size, latest_tree_hash and public
\* key.
C14_RoundTrip ==
    (op = "bytes" /\ pc = "done") =>
        /\ restored.ok
        /\ restored.base_url = base_url
        /\ restored.latest_size = latest_size
        /\ restored.latest_tree_hash = Bytes32(latest_tree_hash)
        /\ restored.pub_key = pub_key
C14_Witness ==
    /\ op = "bytes" /\ pc = "done" /\ restored.ok
    /\ latest_size = 258 /\ Len(pub_key) = 4 /\ Len(base_url) = 3
    /\ Len(bytes) = 1 + 3 + 1 + 8 + 32 + 4 + 4 + 32

\* C15: from_bytes returns an error for an input with a version byte other
\* than 0, for one truncated at any field, for one with a byte after the
\* checksum and for one whose last 32 bytes are not the SHA-256 of the bytes
\* before them (such as a valid byte string with its last byte flipped).
C15_CorruptedRejected ==
    (op \in {"truncated", "extended", "flipped", "version"} /\ pc = "done") =>
        /\ ~restored.ok
        /\ op = "version" => restored.why = "version"
C15_Witness ==
    /\ op = "flipped" /\ pc = "done" /\ ~restored.ok
    /\ LET good == as_bytes(base_url, latest_size, latest_tree_hash, pub_key)
       IN  /\ Len(bytes) = Len(good)
           /\ bytes[Len(bytes)] # good[Len(good)]
           /\ Take(bytes, Len(bytes) - 1) = Take(good, Len(good) - 1)

\* C16: in every reachable client state (after any constructor and any
\* sequence of update and rollback_to_timestamp calls) latest_size = 0
\* implies that latest_tree_hash is the SHA-256 of the empty string.
C16_EmptyTreeHasEmptyHash ==
    latest_size = 0 => latest_tree_hash = EmptyHash

\* C17: rollback_to_timestamp replaces the trusted head with the computed
\* head (tsize, thash) only when tsize < latest_size and the consistency
\* proof from (tsize, thash) to the trusted head has verified; in every other
\* outcome (no leaf found, tsize >= latest_size, an error of the leaf search,
\* of the inclusion proof or of the consistency check) the trust state is
\* unchanged.
C17_RollbackOnlyWhenProved ==
    op = "rollback" =>
        /\ trust # pre =>
              /\ pc = "done" /\ result.kind = "Ok"
              /\ head.tsize < pre[1]
              /\ proof_resp.err = ""
              /\ verify_consistency_proof(head.tsize, pre[1], proof_resp.proof,
                                          head.thash, pre[2]).ok
              /\ trust = <<head.tsize, head.thash>>
        /\ (pc = "done" /\ result.kind = "Ok" /\ head # NoHead
               /\ head.tsize < pre[1]) => trust = <<head.tsize, head.thash>>
        /\ (pc = "done" /\ result.kind = "Ok" /\ head.tsize >= pre[1]) => trust = pre
        /\ (pc = "done" /\ result.kind = "Ok" /\ head = NoHead) => trust = pre
        /\ result.kind \in {"Err", "Panic", "Cancelled"} => trust = pre
C17_Witness ==
    /\ op = "rollback" /\ pc = "done" /\ result.kind = "Ok"
    /\ head.tsize = 2 /\ pre[1] = 4
    /\ proof_resp.proof # <<>>
    /\ trust = <<head.tsize, head.thash>>

\* C18: the trust state is changed by no step other than the one in which
\* update or rollback_to_timestamp returns Ok: check_inclusion_proof_for_sct,
\* first_leaf_after, first_tree_head_after, check_leaf,
\* get_checked_tree_head and as_bytes leave (base_url, pub_key, latest_size,
\* latest_tree_hash) as they are whatever the server answers, and no
\* operation changes base_url or pub_key.
C18_OnlyUpdateAndRollbackMutate ==
    [][/\ base_url' = base_url
       /\ pub_key' = pub_key
       /\ trust' # trust =>
             /\ op \in {"update", "rollback"} /\ op' = op
             /\ pc' = "done" /\ result'.kind = "Ok"]_vars
C18_Witness ==
    /\ op = "first_tree_head_after" /\ pc = "done" /\ result.kind = "Ok"
    /\ head.tsize > 0 /\ head.tsize < latest_size
    /\ head.thash = LogRoot(head.tsize)
    /\ trust = pre

\* a leaf of the tree the call started from has a timestamp of at least the
\* one asked for
SomeLeafNotBefore == \E j \in 1..pre[1] : log_ts[j] >= timestamp

\* C19: when leaf timestamps never decrease in the leaf index and some leaf
\* of [0, latest_size) has a timestamp >= ts, first_leaf_after(ts) returns the
\* smallest such index with the leaf the log holds there, and
\* first_tree_head_after and rollback_to_timestamp use the head of size
\* index + 1.
C19_ReturnsSmallestIndex ==
    (op \in SearchOps /\ pc = "done" /\ result.kind = "Ok" /\ SomeLeafNotBefore)
        => /\ head # NoHead
           /\ head.idx < pre[1]
           /\ head.leaf.timestamp = log_ts[head.idx + 1]
           /\ log_ts[head.idx + 1] >= timestamp
           /\ \A j \in 1..head.idx : log_ts[j] < timestamp
           /\ op # "first_leaf_after" => head.tsize = head.idx + 1

\* what the consistency step of the update made of the answer it received:
\* from the new head to the trusted one in the Less branch, from the trusted
\* head to the new one in the Greater branch
ConsistencyStep ==
    IF sth.tree_size < pre[1]
    THEN check_consistency_proof(sth.tree_size, pre[1], sth.root_hash, pre[2],
                                 proof_resp)
    ELSE check_consistency_proof(pre[1], sth.tree_size, pre[2], sth.root_hash,
                                 proof_resp)
\* update returned (it was not dropped) after its consistency step failed
ConsistencyStepFailed ==
    /\ op = "update" /\ pc = "done" /\ result.kind # "Cancelled"
    /\ sth # NoSth /\ sth.tree_size # pre[1]
    /\ ~ConsistencyStep.ok

\* C20: a failure of an internal step of update is returned with the kind
\* it failed with: a failed get-sth as Err of one of its kinds, and a failed
\* fetch or check of the consistency proof as ErrWithSth of the same kind
\* (NetIO, InvalidResponseStatus, MalformedResponseBody or
\* InvalidConsistencyProof) in the Less and in the Greater branch.
C20_ErrorKindsIntact ==
    /\ (op = "update" /\ pc = "done" /\ result.kind = "Err")
           => result.err \in SthErrors
    /\ ConsistencyStepFailed
           => result.kind = "ErrWithSth" /\ result.err = ConsistencyStep.err

\* the hashes a leaf served as entry j of the log can have
EntryHashes(j) == {Faulty(HonestEntry(j), f).hash : f \in Faults \cup {"none"}}

\* C21: when the leaf stream of a handler-mode update ends before
\* new_size - latest_size leaves were yielded, update returns
\* ErrWithSth(ExpectedEntry(i), sth) without committing, where every entry of
\* [latest_size, i) was delivered, in order, and handed to the handler, and
\* entry i is the first that was not.
C21_ExpectedEntryIsFirstMissing ==
    (UpdateReturned /\ result.err = "ExpectedEntry") =>
        /\ result.kind = "ErrWithSth" /\ result.sth = sth
        /\ trust = pre
        /\ result.index = pre[1] + Len(leaf_hashes)
        /\ result.index < sth.tree_size
        /\ handled = [k \in 1..Len(leaf_hashes) |-> pre[1] + k - 1]
        /\ \A k \in 1..Len(leaf_hashes) :
               leaf_hashes[k] \in EntryHashes(pre[1] + k - 1)

\* the polls of the stream that returned an Err item
ErrPolls == {j \in 1..Len(yielded) : yielded[j].k = "Err"}

\* C22: once the leaf stream has yielded an Err item (failed request or
\* unparsable leaf), every later poll yields None, and the stream is in no
\* further get-entries request.
C22_NothingAfterFirstErr ==
    (op = "stream" /\ ErrPolls # {}) =>
        /\ \A j \in ErrPolls : \A k \in (j + 1)..Len(yielded) :
               yielded[k].k = "None"
        /\ pc # "s_wait"
        /\ leafs.st = "ended"
C22_Witness ==
    /\ op = "stream"
    /\ Len(yielded) >= 4
    /\ yielded[1].k = "Some" /\ yielded[2].k = "Err"
    /\ yielded[3].k = "None" /\ yielded[4].k = "None"
    /\ leafs.next_index < leafs.range_end

\* C23: whatever timestamps the server gives the probed leaves, when
\* first_leaf_after(ts) returns Ok(Some((i, leaf))), i is an index below
\* latest_size that the search probed, leaf is the entry delivered for it,
\* and leaf.timestamp >= ts.
C23_ReturnedLeafNotBefore ==
    (op = "first_leaf_after" /\ pc = "done" /\ result.kind = "Ok"
        /\ head # NoHead) =>
        /\ head.idx >= 0 /\ head.idx < pre[1]
        /\ \E j \in 1..Len(requests) : requests[j] = <<head.idx, head.idx>>
        /\ head.leaf.idx = head.idx
        /\ head.leaf.timestamp >= timestamp
C23_Witness ==
    /\ op = "first_leaf_after" /\ pc = "done" /\ result.kind = "Ok"
    /\ pre[1] = 4 /\ timestamp = 1
    /\ requests = << <<1, 1>>, <<0, 0>> >>
    /\ head.idx = 1 /\ head.leaf.timestamp = 2

\* a searching call is over and none of its probes failed or found a leaf
\* with a timestamp of at least the one asked for
SearchFoundNothing ==
    /\ op \in SearchOps /\ pc \in {"done", "panicked"}
    /\ result.kind \notin {"Err", "Cancelled"}
    /\ ~last_leaf.some /\ head = NoHead

\* C24: when no probed leaf has a timestamp >= ts (latest_size = 0, or every
\* probed leaf is older), first_leaf_after returns Ok(None) without
\* panicking, first_tree_head_after returns Ok(None) and
\* rollback_to_timestamp returns Ok(()), the trust state unchanged.
C24_NoMatchReturnsNone ==
    SearchFoundNothing =>
        /\ pc = "done" /\ result.kind = "Ok"
        /\ trust = pre

\* number of leaf indices the parts cover, counted with multiplicity
RECURSIVE PartsLength(_)
PartsLength(ps) ==
    IF ps = <<>> THEN 0
    ELSE ps[1].subtree[2] - ps[1].subtree[1] + PartsLength(Tail(ps))
\* update holds the obligations of a verified proof from the trusted size to
\* a larger signed size
HoldsObligations ==
    /\ op = "update" /\ sth # NoSth /\ sth.tree_size > pre[1]
    /\ pc \notin {"sth", "cons_greater"}
    /\ ~(result.kind = "Cancelled" /\ Len(events) = 2)
    /\ ConsistencyStep.ok

\* C25: the parts update holds after a verified proof from a = latest_size to
\* b = new_size each satisfy a <= subtree.0 < subtree.1 <= b, no two of them
\* overlap and together they cover [a, b), so that a handler-mode update
\* that returns Ok has compared every downloaded leaf hash with an
\* obligation.
C25_ObligationsTileNewLeaves ==
    HoldsObligations =>
        LET parts == consistency_proof_parts
        IN  /\ \A j \in 1..Len(parts) :
                   /\ pre[1] <= parts[j].subtree[1]
                   /\ parts[j].subtree[1] < parts[j].subtree[2]
                   /\ parts[j].subtree[2] <= sth.tree_size
            /\ \A j, k \in 1..Len(parts) : j # k =>
                   \/ parts[j].subtree[2] <= parts[k].subtree[1]
                   \/ parts[k].subtree[2] <= parts[j].subtree[1]
            /\ PartsLength(parts) = sth.tree_size - pre[1]
            /\ (cert_handler /\ pc = "done" /\ result.kind = "Ok") =>
                   /\ Len(leaf_hashes) = sth.tree_size - pre[1]
                   /\ \A j \in 1..Len(parts) :
                          SliceRoot(parts[j], pre[1], leaf_hashes) = parts[j].node_hash
C25_Witness ==
    /\ HoldsObligations /\ cert_handler /\ pc = "done" /\ result.kind = "Ok"
    /\ pre[1] = 1 /\ sth.tree_size = 4
    /\ Len(consistency_proof_parts) = 2

\* the leaf given to check_leaf has one of the defects that make a chain
\* unacceptable
LeafDefective ==
    LET chain == x509_leaf.x509_chain
        tbs == x509_leaf.tbs_cert
    IN  \/ \E j \in 1..Len(chain) : chain[j].der # "ok"
        \/ Len(chain) < 2
        \/ \E j \in 1..(Len(chain) - 1) : chain[j].issuer # chain[j + 1].name
        \/ /\ tbs # <<>>
           /\ tbs # <<chain[1].name, chain[1].issuer>>
           /\ ~(Len(chain) >= 3 /\ tbs = <<chain[1].name, chain[3].name>>)

\* C26: check_leaf calls the handler it is given exactly once, with the
\* whole decoded chain, when it returns Ok, and not at all when it returns
\* Err; it returns Err for a chain with a blob that does not decode, with
\* fewer than two certificates, with an adjacent pair that does not verify,
\* or for a precert whose TBS matches neither that of chain[0] without
\* poison nor, with three or more certificates, that of chain[0] re-issued
\* under chain[2].
C26_HandlerCalledIffOk ==
    (op = "check_leaf" /\ pc = "done") =>
        /\ result.kind \in {"Ok", "Err"}
        /\ (result.kind = "Ok" /\ cert_handler)
               => handled = <<x509_leaf.x509_chain>>
        /\ (result.kind = "Err" \/ ~cert_handler) => handled = <<>>
        /\ LeafDefective => result.kind = "Err"
C26_Witness ==
    /\ op = "check_leaf" /\ pc = "done" /\ cert_handler
    /\ result.kind = "Err" /\ result.err = "BadCertificate"
    /\ Len(x509_leaf.x509_chain) = 3
    /\ ChainError(x509_leaf) = ""
    /\ x509_leaf.tbs_cert = <<1, 0>>
    /\ handled = <<>>

\* the error kinds the leaf loop of update returns with
LeafLoopErrors == FetchErrors \cup {"ExpectedEntry", "BadCertificate"}

\* C27: in one handler-mode update the handler is invoked for the expected
\* indices latest_size, latest_size + 1, ... in this order, once each and
\* never for new_size or beyond; when a leaf fails to download or to check,
\* update returns ErrWithSth at that index: the handler was invoked for the
\* indices before it only, and at most the failing leaf was read after the
\* last leaf handled.
C27_HandlerInOrderUntilFailure ==
    op = "update" =>
        /\ \A k \in 1..Len(handled) : handled[k] = pre[1] + k - 1
        /\ handled # <<>> =>
               /\ cert_handler /\ sth # NoSth
               /\ pre[1] + Len(handled) <= sth.tree_size
        /\ Len(leaf_hashes) \in {Len(handled), Len(handled) + 1}
        /\ (pc = "done" /\ result.kind # "Cancelled" /\ requests # <<>>
               /\ result.err \in LeafLoopErrors) =>
               /\ result.kind = "ErrWithSth" /\ result.sth = sth
               /\ i = pre[1] + Len(handled)
               /\ i < sth.tree_size
               /\ Len(leaf_hashes) = Len(handled) + 1
                      <=> result.err = "BadCertificate"
C27_Witness ==
    /\ op = "update" /\ pc = "done" /\ result.kind = "ErrWithSth"
    /\ result.err = "BadCertificate"
    /\ pre[1] = 0 /\ sth.tree_size = 4
    /\ handled = <<0, 1>> /\ i = 2

\* the larger of two sizes
Max(x, y) == IF x >= y THEN x ELSE y

\* C28: no step of update lowers latest_size, and the step in which update
\* returns Ok(sth) leaves the trusted size at the larger of the size
\* trusted before the call and sth.tree_size, with sth.root_hash as the
\* trusted root when sth.tree_size is not the smaller; a step that lowers
\* latest_size is a step of rollback_to_timestamp.
C28_UpdateNeverShrinks ==
    [][/\ latest_size' < latest_size => (op = "rollback" /\ op' = "rollback")
       /\ op' = "update" => latest_size' >= pre'[1]
       /\ (op' = "update" /\ pc' = "done" /\ result'.kind = "Ok") =>
             /\ result'.sth = sth'
             /\ latest_size' = Max(pre'[1], sth'.tree_size)
             /\ sth'.tree_size >= pre'[1] => latest_tree_hash' = sth'.root_hash
             /\ sth'.tree_size < pre'[1] => latest_tree_hash' = pre'[2]]_vars
C28_Witness ==
    /\ op = "update" /\ pc = "done" /\ result.kind = "Ok"
    /\ pre[1] = 3 /\ sth.tree_size = 1
    /\ latest_size = 3 /\ latest_tree_hash = pre[2]
    /\ proof_resp.proof # <<>>

\* C29: in a handler-mode update the Merkle obligations are checked after
\* all new_size - latest_size leaves were downloaded and handed to the
\* handler: when update is about to check them, and when it returns
\* ErrWithSth(CannotVerifyTreeData), the handler has been invoked once for
\* every index of [latest_size, new_size), and on that return nothing is
\* committed.
C29_HandlerBeforeMerkleCheck ==
    LET all == [k \in 1..(sth.tree_size - pre[1]) |-> pre[1] + k - 1]
    IN  /\ (op = "update" /\ pc = "verify") =>
               /\ cert_handler
               /\ handled = all
               /\ Len(leaf_hashes) = sth.tree_size - pre[1]
        /\ (op = "update" /\ pc = "done" /\ result.err = "CannotVerifyTreeData") =>
               /\ cert_handler
               /\ result.kind = "ErrWithSth" /\ result.sth = sth
               /\ handled = all
               /\ Len(SelectSeq(events, LAMBDA e : e = "handler"))
                      = sth.tree_size - pre[1]
               /\ trust = pre
C29_Witness ==
    /\ op = "update" /\ pc = "done" /\ result.err = "CannotVerifyTreeData"
    /\ pre[1] = 1 /\ sth.tree_size = 4
    /\ handled = <<1, 2, 3>>
    /\ trust = pre

\* floor(log2(n)) for n >= 1
RECURSIVE Log2Floor(_)
Log2Floor(n) == IF n <= 1 THEN 0 ELSE 1 + Log2Floor(n \div 2)

\* C30: in a search over [0, latest_size) every request asks for the single
\* entry mid with low <= mid < high <= latest_size, and the window shrinks
\* by half or more with each probe: with k requests made and the k-th
\* outstanding, k + floor(log2(high - low)) <= floor(log2(latest_size)) + 1,
\* so that the search returns after at most floor(log2(latest_size)) + 1
\* requests (none for latest_size = 0), whatever the server answers.
C30_SearchTerminates ==
    op \in SearchOps =>
        /\ \A j \in 1..Len(requests) :
               /\ requests[j][1] = requests[j][2]
               /\ 0 <= requests[j][1] /\ requests[j][1] < pre[1]
        /\ pre[1] = 0 => requests = <<>>
        /\ pre[1] > 0 => Len(requests) <= Log2Floor(pre[1]) + 1
        /\ pc = "search" =>
               /\ low <= leafs.next_index /\ leafs.next_index < high
               /\ high <= pre[1]
               /\ requests[Len(requests)] = <<leafs.next_index, leafs.next_index>>
               /\ Len(requests) + Log2Floor(high - low) <= Log2Floor(pre[1]) + 1
C30_Witness ==
    /\ op = "first_leaf_after" /\ pc = "done" /\ result.kind = "Ok"
    /\ pre[1] = 4
    /\ requests = << <<1, 1>>, <<2, 2>>, <<3, 3>> >>

====
